---- MODULE Spec2Model ----
(***************************************************************************)
(* LLM Splitter: the background coordinator (service-worker.ts).           *)
(* One SUBMIT_QUERY request is followed from validation through window     *)
(* creation and positioning (phase 1) to page-load waiting, the readiness  *)
(* handshake and the injection command (phase 2).  The browser (chrome API) *)
(* is the environment: each call of it resolves or rejects by a            *)
(* nondeterministic choice.                                                *)
(* Further specifications follow the request under the event loop         *)
(* (FairSpec), the message listener (MessageSpec), the Geometry Planner    *)
(* on its own (GeometrySpec), the storage module (HistorySpec for the      *)
(* history and the settings, ProviderSpec for the provider list), the      *)
(* request over a record with a disabled provider (ToggledSpec), the page  *)
(* adapter of a tab (AdapterSpec, AdapterFairSpec), its element lookup     *)
(* (LookupSpec, LookupFairSpec), its submission (ClickSpec) and its text   *)
(* entry into a contenteditable element (EditorSpec, EditorFairSpec), the  *)
(* provider script of a page (DetectSpec, ScriptSpec), the storage         *)
(* operations of two callers at once (RaceSpec), the listener registration *)
(* of the service worker (ListenerSpec) and its popup window (PopupSpec).  *)
(***************************************************************************)
EXTENDS Integers, Sequences, FiniteSets, TLC

(***************************************************************************)
(* Bounds of the model.                                                    *)
(***************************************************************************)
\* longest id list of a request
MaxIds == 2
\* polls of chrome.tabs.get after which the 15 s page-load timeout has
\* certainly elapsed (150 polls of 100 ms in the program)
MaxLoadPolls == 2
\* the PING budget handed to waitForContentScript (20 in the program)
PingBudget == 2
\* the planner is tried on screens 1000 to 1000 + WidthSpread px wide
WidthSpread == 3
\* updateSettings is tried with maxHistoryItems 0 to HistoryCap (and 50)
HistoryCap == 2
\* setupListeners and resetListeners calls followed, the one made when the
\* module is loaded included
MaxListenerCalls == 7
\* messages a page adapter receives
MaxMessages == 2
\* elements of a provider page that the detection strategies can find
MaxCandidates == 2
\* togglePopup calls made
MaxToggles == 3

(***************************************************************************)
(* Program constants.                                                      *)
(***************************************************************************)
\* verifyAndCorrectPosition: maxRetries
maxRetries == 3
\* verifyAndCorrectPosition: tolerance in px per dimension
Tolerance == 5
\* getScreenDimensions: the fallback rectangle
FallbackWidth == 1920
FallbackHeight == 1080
waitForEnabledMaxRetries == 10
\* looksLikeMainInput: a main input is wider and higher than this
MainInputMinWidth == 200
MainInputMinHeight == 30

(***************************************************************************)
(* Strings are sequences of characters, so that trim() is computed.        *)
(***************************************************************************)
Whitespace == {" ", "\t", "\n"}

RECURSIVE trimStart(_)
trimStart(s) ==
  IF s # <<>> /\ Head(s) \in Whitespace THEN trimStart(Tail(s)) ELSE s

RECURSIVE trimEnd(_)
trimEnd(s) ==
  IF s # <<>> /\ s[Len(s)] \in Whitespace
    THEN trimEnd(SubSeq(s, 1, Len(s) - 1))
    ELSE s

\* String.prototype.trim
trim(s) == trimEnd(trimStart(s))

\* the query texts a request may carry
Queries ==
  { <<>>, <<" ">>, <<" ", "\t">>, <<"q">>, <<" ", "q", " ", "r", "\n">> }

Range(s) == { s[x] : x \in DOMAIN s }

(***************************************************************************)
(* The provider registry and the stored record.                            *)
(***************************************************************************)
DEFAULT_PROVIDERS ==
  << [id |-> "chatgpt", name |-> "ChatGPT", newChatUrl |-> "https://chatgpt.com/",
      inputSelector |-> "#prompt-textarea",
      submitSelector |-> "[data-testid=send-button]",
      enabled |-> TRUE, urlPattern |-> "chatgpt.com"],
     [id |-> "claude", name |-> "Claude", newChatUrl |-> "https://claude.ai/new",
      inputSelector |-> "[contenteditable=true]",
      submitSelector |-> "[aria-label=Send Message]",
      enabled |-> TRUE, urlPattern |-> "claude.ai"],
     [id |-> "gemini", name |-> "Gemini", newChatUrl |-> "https://gemini.google.com/app",
      inputSelector |-> ".ql-editor",
      submitSelector |-> "[aria-label=Send message]",
      enabled |-> TRUE, urlPattern |-> "gemini.google.com"],
     [id |-> "grok", name |-> "Grok", newChatUrl |-> "https://grok.com/",
      inputSelector |-> "textarea",
      submitSelector |-> "[aria-label=Submit]",
      enabled |-> TRUE, urlPattern |-> "grok.com"] >>

Layouts == {"horizontal", "grid", "vertical"}

DEFAULT_STORAGE_DATA ==
  [providers |-> DEFAULT_PROVIDERS,
   queryHistory |-> <<>>,
   settings |-> [maxHistoryItems |-> 50,
                 keyboardShortcut |-> "Ctrl+Shift+Q",
                 defaultLayout |-> "grid"]]

\* the ids a request may name: two known ones and one unknown to the registry
RequestIds == {"chatgpt", "claude", "nonexistent"}

\* every id list of length 0..MaxIds
IdLists == UNION { [1..n -> RequestIds] : n \in 0..MaxIds }

\* the payloads of SUBMIT_QUERY; hasIds = FALSE is providerIds undefined
Payloads ==
  { [query |-> q, hasIds |-> TRUE, providerIds |-> l] :
      q \in Queries, l \in IdLists }
  \cup { [query |-> q, hasIds |-> FALSE, providerIds |-> <<>>] : q \in Queries }

(***************************************************************************)
(* Geometry Planner.                                                       *)
(***************************************************************************)
\* the work areas chrome.system.display.getInfo may report
Displays ==
  { [width |-> 1001, height |-> 700, left |-> 10, top |-> 25] }

FallbackScreen ==
  [width |-> FallbackWidth, height |-> FallbackHeight, left |-> 0, top |-> 0]

\* Math.round of a value that is an integer already
MathRound(x) == x

\* variant: the strip width is rounded up instead of down
calculateWindowPositionsCeil(screen, providerCount, layout) ==
  LET windowWidth == (screen.width + providerCount - 1) \div providerCount
  IN [x \in 1..providerCount |->
        [left |-> screen.left + (x - 1) * windowWidth, top |-> screen.top,
         width |-> windowWidth, height |-> screen.height]]

\* variant: the strips are laid out from x = 0, not from the work area's left
calculateWindowPositionsFromOrigin(screen, providerCount, layout) ==
  LET windowWidth == screen.width \div providerCount
  IN [x \in 1..providerCount |->
        [left |-> (x - 1) * windowWidth, top |-> screen.top,
         width |-> windowWidth, height |-> screen.height]]

\* variant: the grid is filled column by column
calculateWindowPositionsColumnMajor(screen, providerCount, layout) ==
  LET halfWidth == screen.width \div 2
      halfHeight == screen.height \div 2
      windowWidth == screen.width \div providerCount
  IN IF layout = "grid" /\ providerCount = 4
       THEN << [left |-> screen.left, top |-> screen.top,
                width |-> halfWidth, height |-> halfHeight],
               [left |-> screen.left, top |-> screen.top + halfHeight,
                width |-> halfWidth, height |-> halfHeight],
               [left |-> screen.left + halfWidth, top |-> screen.top,
                width |-> halfWidth, height |-> halfHeight],
               [left |-> screen.left + halfWidth, top |-> screen.top + halfHeight,
                width |-> halfWidth, height |-> halfHeight] >>
       ELSE [x \in 1..providerCount |->
               [left |-> screen.left + (x - 1) * windowWidth, top |-> screen.top,
                width |-> windowWidth, height |-> screen.height]]

calculateWindowPositions(screen, providerCount, layout) ==
  IF layout = "grid" /\ providerCount = 4
    THEN LET halfWidth == screen.width \div 2
             halfHeight == screen.height \div 2
         IN << [left |-> screen.left, top |-> screen.top,
                width |-> halfWidth, height |-> halfHeight],
               [left |-> screen.left + halfWidth, top |-> screen.top,
                width |-> halfWidth, height |-> halfHeight],
               [left |-> screen.left, top |-> screen.top + halfHeight,
                width |-> halfWidth, height |-> halfHeight],
               [left |-> screen.left + halfWidth, top |-> screen.top + halfHeight,
                width |-> halfWidth, height |-> halfHeight] >>
    ELSE LET windowWidth == screen.width \div providerCount
         IN [x \in 1..providerCount |->
               [left |-> MathRound(screen.left + (x - 1) * windowWidth),
                top |-> MathRound(screen.top),
                width |-> MathRound(windowWidth),
                height |-> MathRound(screen.height)]]

(***************************************************************************)
(* State.                                                                  *)
(***************************************************************************)
VARIABLES
  storage,            \* the persisted record (chrome.storage.local)
  pc,                 \* where handleQuerySubmit stands
  payload,            \* the payload of the request being handled
  response,           \* <<>> until the handler returns, then <<MessageResponse>>
  selectedProviders,  \* handleQuerySubmit: selectedProviders
  screen,             \* handleQuerySubmit: screenDimensions
  positions,          \* handleQuerySubmit: positions
  i,                  \* the loop index of phase 1 (1-based)
  win,                \* createAndPositionWindow: window, as the browser has it
  attempt,            \* verifyAndCorrectPosition: attempt
  createdWindows,     \* handleQuerySubmit: createdWindows
  launched,           \* Promise.all(createdWindows.map(...)) has been called
  tasks,              \* one waitAndInjectQuery call per entry of createdWindows
  nextId,             \* the browser's next window/tab id
  tabUrl,             \* the browser: tab id -> the url the tab was opened at
  createCalls,        \* log: the arguments of every chrome.windows.create call
  verifyState,        \* log: per destination, "idle" / "running" / "returned"
  tabLog,             \* log: per tab id, the calls addressed to it and answers
  thrown,             \* log: the browser calls whose rejection was not caught
  incoming,           \* log: the message the request arrived in
  displayInfo,        \* log: whether the display query gave a display
  lastCall,           \* log: the last storage operation and the record it found
  inbox,              \* page adapter: the messages its listener has received
  listenersInitialized, \* service worker: listenersInitialized
  addListenerCalls,   \* log: the addListener calls made, per browser event
  setupLog,           \* log: the setupListeners and resetListeners calls made
  submitCall,         \* page adapter: a clickSubmit call and what it did
  lookup,             \* page adapter: a waitForElement call and the document
  script,             \* provider script: its page, its fields and its effects
  editor,             \* page adapter: a contenteditable element and what it saw
  ops,                \* storage: per caller, the operation it has in flight
  popup               \* service worker: popupWindowId, the popup windows of
                      \* the browser and the togglePopup calls in flight

\* the state of the page adapter (content script) of one tab
adapterVars == << inbox, submitCall, lookup, script, editor >>

\* the module-level state of the service worker and what is logged about
\* it, and the storage operations the extension's contexts have in flight
moduleVars ==
  << listenersInitialized, addListenerCalls, setupLog, ops, popup >>

vars ==
  << storage, pc, payload, response, selectedProviders, screen, positions, i,
     win, attempt, createdWindows, launched, tasks, nextId, tabUrl,
     createCalls, verifyState, tabLog, thrown, incoming, displayInfo,
     lastCall, adapterVars, moduleVars >>

ZeroRect == [left |-> 0, top |-> 0, width |-> 0, height |-> 0]

\* no window at hand (id 0 stands for a missing id, tabId 0 for no tab with an id)
NoWindow == [id |-> 0, tabId |-> 0, bounds |-> ZeroRect]

NoPayload == [query |-> <<>>, hasIds |-> FALSE, providerIds |-> <<>>]

\* no message has arrived yet
NoMessage == [type |-> "", payload |-> NoPayload]

\* Partial<Settings>: the fields named, and their values
NoUpdates ==
  [names |-> {}, values |-> DEFAULT_STORAGE_DATA.settings]

\* no storage operation has run yet
NoCall ==
  [op |-> "none", query |-> <<>>, updates |-> NoUpdates,
   before |-> DEFAULT_STORAGE_DATA, write |-> "none"]

\* the contexts of the extension that call the storage operations
Callers == {"first", "second"}

\* a caller with no storage operation in flight
NoOperation ==
  [pc |-> "idle", op |-> "none", query |-> <<>>, id |-> "", enabled |-> FALSE,
   updates |-> NoUpdates, found |-> DEFAULT_STORAGE_DATA,
   data |-> DEFAULT_STORAGE_DATA, write |-> "none"]

\* the listeners that call togglePopup: action.onClicked and commands.onCommand
Togglers == {"action", "command"}

\* popupWindowId = null (0 here), no popup window, no togglePopup call
NoPopup ==
  [popupWindowId |-> 0, open |-> {}, removed |-> {}, toggles |-> 0,
   windows |-> 0,
   calls |-> [t \in Togglers |-> [pc |-> "idle", window |-> 0]]]

\* no clickSubmit call has been made
NoSubmitCall ==
  [pc |-> "idle", isHTMLElement |-> FALSE, hasInput |-> FALSE,
   disabled |-> FALSE, ariaDisabled |-> "", polls |-> 0,
   seen |-> [disabled |-> FALSE, ariaDisabled |-> ""], events |-> <<>>,
   result |-> FALSE]

\* no waitForElement call has been made; the document matches no selector
NoLookup ==
  [pc |-> "idle", selector |-> <<>>, dom |-> {}, observer |-> "none",
   records |-> FALSE, timer |-> "none", resolveCalls |-> 0, promise |-> <<>>]

\* the places of a page where the strategies of detectInput and
\* detectSubmitButton look for an element
Slots == {"custom", "selector", "attribute", "editable", "submit"}

\* a provider script that has been constructed: observer = null,
\* inputElement = null, isReady = false; its page is empty
NoScript ==
  [doc |-> [s \in Slots |-> <<>>], life |-> "constructed",
   customSubmit |-> FALSE, observer |-> "none", holdsObserver |-> FALSE,
   records |-> FALSE, timer |-> "none", inputElement |-> "none",
   isReady |-> FALSE, pending |-> "none", exec |-> "idle",
   destroyed |-> FALSE, effects |-> <<>>]

\* an empty contenteditable element that nothing was entered into
NoEditor ==
  [pc |-> "idle", textContent |-> "", text |-> "", at |-> 0, log |-> <<>>]

\* the content script has been loaded and has received nothing yet
PageAtRest ==
  /\ inbox = <<>>
  /\ submitCall = NoSubmitCall
  /\ lookup = NoLookup
  /\ script = NoScript
  /\ editor = NoEditor

\* the browser events setupListeners subscribes to
ListenerEvents ==
  {"runtime.onMessage", "contextMenus.onClicked", "action.onClicked",
   "commands.onCommand", "windows.onRemoved"}

\* the service worker module has been evaluated: its last statements call
\* setupListeners() once
ModuleLoaded ==
  /\ listenersInitialized = TRUE
  /\ addListenerCalls = [e \in ListenerEvents |-> 1]
  /\ setupLog = << "setupListeners" >>
  /\ ops = [c \in Callers |-> NoOperation]
  /\ popup = NoPopup

\* MessageResponse; the error text is kept as the list of its parts
Success == [success |-> TRUE, error |-> <<>>]
Failure(parts) == [success |-> FALSE, error |-> parts]

Init ==
  /\ storage = DEFAULT_STORAGE_DATA
  /\ pc = "idle"
  /\ payload = NoPayload
  /\ response = <<>>
  /\ selectedProviders = <<>>
  /\ screen = FallbackScreen
  /\ positions = <<>>
  /\ i = 0
  /\ win = NoWindow
  /\ attempt = 0
  /\ createdWindows = <<>>
  /\ launched = FALSE
  /\ tasks = <<>>
  /\ nextId = 1
  /\ tabUrl = <<>>
  /\ createCalls = <<>>
  /\ verifyState = <<>>
  /\ tabLog = <<>>
  /\ thrown = {}
  /\ incoming = NoMessage
  /\ displayInfo = "unasked"
  /\ lastCall = NoCall
  /\ PageAtRest
  /\ ModuleLoaded

(***************************************************************************)
(* handleQuerySubmit: validation and resolution.                           *)
(***************************************************************************)
\* variant: the query is not trimmed before the test
QueryIsEmptyUntrimmed(query) == query = <<>>

\* !query || query.trim().length === 0
QueryIsEmpty(query) == query = <<>> \/ Len(trim(query)) = 0

\* variant: only a missing list is refused, not an empty one
NoProviderIdsUndefinedOnly(p) == ~p.hasIds

\* !providerIds || providerIds.length === 0
NoProviderIds(p) == ~p.hasIds \/ Len(p.providerIds) = 0

\* variant: an id that matches nothing falls back to the first provider
findOrFirst(providers, id) ==
  IF \E x \in DOMAIN providers : providers[x].id = id
    THEN CHOOSE x \in DOMAIN providers : providers[x].id = id
    ELSE 1

\* variant: only an enabled provider is found
findEnabled(providers, id) ==
  IF \E x \in DOMAIN providers : providers[x].id = id /\ providers[x].enabled
    THEN CHOOSE x \in DOMAIN providers :
           /\ providers[x].id = id /\ providers[x].enabled
           /\ \A y \in 1..(x - 1) : ~(providers[y].id = id /\ providers[y].enabled)
    ELSE 0

\* providers.find((p) => p.id === id): the index of the first match, 0 if none
find(providers, id) ==
  IF \E x \in DOMAIN providers : providers[x].id = id
    THEN CHOOSE x \in DOMAIN providers :
           /\ providers[x].id = id
           /\ \A y \in 1..(x - 1) : providers[y].id # id
    ELSE 0

\* the loop that fills selectedProviders
RECURSIVE SelectProviders(_, _)
SelectProviders(providerIds, providers) ==
  IF providerIds = <<>>
    THEN <<>>
    ELSE LET x == find(providers, Head(providerIds))
             rest == SelectProviders(Tail(providerIds), providers)
         IN IF x # 0 THEN <<providers[x]>> \o rest ELSE rest

\* the handler returns r
Return(r) ==
  /\ response' = <<r>>
  /\ pc' = "returned"

\* the catch of handleQuerySubmit: `Failed to open windows: ${error}`
Catch(error) == Return(Failure(<<"Failed to open windows: ", error>>))

\* the browser rejects a call that no try/catch of its caller guards
Rejects(api) == thrown' = thrown \cup {api}

\* a browser call of phase 1 rejects: the rejection reaches the catch
Throw(api) ==
  /\ Rejects(api)
  /\ Catch(api)

\* handleQuerySubmit(payload): entry and validation
handleQuerySubmit(p) ==
  /\ pc = "idle"
  /\ payload' = p
  /\ IF QueryIsEmpty(p.query)
       THEN Return(Failure(<<"Query cannot be empty">>))
       ELSE IF NoProviderIds(p)
         THEN Return(Failure(<<"At least one provider must be selected">>))
         ELSE /\ pc' = "storage"
              /\ UNCHANGED response
  /\ UNCHANGED << storage, selectedProviders, screen, positions, i, win, attempt,
                  createdWindows, launched, tasks, nextId, tabUrl, createCalls,
                  verifyState, tabLog, thrown >>
  /\ UNCHANGED << displayInfo, lastCall, adapterVars, moduleVars >>

\* a SUBMIT_QUERY message with payload p arrives
SubmitQuery(p) ==
  /\ handleQuerySubmit(p)
  /\ incoming' = [type |-> "SUBMIT_QUERY", payload |-> p]

\* the type tags a message may carry
MessageTypes == {"SUBMIT_QUERY", "UNKNOWN_TYPE", "PING", "submit_query"}

\* ExtensionMessage: a SUBMIT_QUERY with its payload, or another tag
Messages ==
  { [type |-> "SUBMIT_QUERY", payload |-> p] : p \in Payloads }
    \cup { [type |-> t, payload |-> NoPayload] :
             t \in MessageTypes \ {"SUBMIT_QUERY"} }

\* variant: every message is handed to handleQuerySubmit
RouteAll(type) == "handleQuerySubmit"

\* handleMessage: switch (message.type)
Route(type) ==
  IF type = "SUBMIT_QUERY" THEN "handleQuerySubmit" ELSE "default"

\* handleMessage: the error of the default case
UnknownMessageType(type) == <<"Unknown message type: ", type>>

handleMessage(m) ==
  /\ incoming' = m
  /\ IF Route(m.type) = "handleQuerySubmit"
       THEN handleQuerySubmit(m.payload)
       ELSE /\ pc = "idle"
            /\ Return(Failure(UnknownMessageType(m.type)))
            /\ UNCHANGED << storage, payload, selectedProviders, screen,
                            positions, i, win, attempt, createdWindows,
                            launched, tasks, nextId, tabUrl, createCalls,
                            verifyState, tabLog, thrown, displayInfo, lastCall, adapterVars, moduleVars >>

\* getStorageData() has answered; the ids are resolved against its providers
ResolveProviders ==
  /\ pc = "storage"
  /\ LET selected == SelectProviders(payload.providerIds, storage.providers)
     IN /\ selectedProviders' = selected
        /\ verifyState' = [x \in 1..Len(selected) |-> "idle"]
        /\ IF Len(selected) = 0
             THEN Return(Failure(<<"No valid providers found">>))
             ELSE /\ pc' = "measure"
                  /\ UNCHANGED response
  /\ UNCHANGED << storage, payload, screen, positions, i, win, attempt,
                  createdWindows, launched, tasks, nextId, tabUrl, createCalls,
                  tabLog, thrown >>
  /\ UNCHANGED << incoming, displayInfo, lastCall, adapterVars, moduleVars >>

\* how chrome.system.display.getInfo() answers: a list with a display in it,
\* an empty list (or nothing), or a rejection
DisplayAnswers == {"displays", "none", "threw"}

\* variant: a failed query leaves the rectangle empty
getScreenDimensionsNoFallback(answer, workArea) ==
  IF answer = "displays" THEN workArea ELSE ZeroRect

\* getScreenDimensions: the work area of the primary (else the first) display,
\* or the fallback when the list is empty or the call was caught rejecting
getScreenDimensions(answer, workArea) ==
  IF answer = "displays" THEN workArea ELSE FallbackScreen

\* getScreenDimensions, then calculateWindowPositions.
MeasureAndPlan ==
  /\ pc = "measure"
  /\ \E answer \in DisplayAnswers, d \in Displays :
       /\ (answer # "displays" => d = CHOOSE x \in Displays : TRUE)
       /\ displayInfo' = IF answer = "displays" THEN "displays" ELSE "failed"
       /\ screen' = getScreenDimensions(answer, d)
  /\ positions' = calculateWindowPositions(screen', Len(selectedProviders),
                                           storage.settings.defaultLayout)
  /\ i' = 1
  /\ pc' = "create"
  /\ UNCHANGED << storage, payload, response, selectedProviders, win, attempt,
                  createdWindows, launched, tasks, nextId, tabUrl, createCalls,
                  verifyState, tabLog, thrown >>
  /\ UNCHANGED << incoming, lastCall, adapterVars, moduleVars >>

(***************************************************************************)
(* Phase 1: createAndPositionWindow and verifyAndCorrectPosition.          *)
(***************************************************************************)
Abs(x) == IF x < 0 THEN 0 - x ELSE x

\* variant: no tolerance, only the exact rectangle counts as correct
isCorrectExact(actual, expected) ==
  /\ actual.left = expected.left
  /\ actual.top = expected.top
  /\ actual.width = expected.width
  /\ actual.height = expected.height

\* verifyAndCorrectPosition: isCorrect
isCorrect(actual, expected) ==
  /\ Abs(actual.left - expected.left) <= Tolerance
  /\ Abs(actual.top - expected.top) <= Tolerance
  /\ Abs(actual.width - expected.width) <= Tolerance
  /\ Abs(actual.height - expected.height) <= Tolerance

\* where the window manager may put a window asked to be at rect: there, or
\* off in one dimension by the tolerance or by one pixel more
Placements(rect) ==
  {rect} \cup
  UNION { { [rect EXCEPT !.left = @ + dx], [rect EXCEPT !.top = @ + dx],
            [rect EXCEPT !.width = @ - dx], [rect EXCEPT !.height = @ - dx] } :
          dx \in {Tolerance, Tolerance + 1} }

\* variant: every window is given the first rectangle
CreateArgsFirstRect(selected, rects, idx) ==
  [url |-> selected[idx].newChatUrl, rect |-> rects[1]]

\* the arguments of chrome.windows.create for the destination at index idx
CreateArgs(selected, rects, idx) ==
  [url |-> selected[idx].newChatUrl, rect |-> rects[idx]]

\* variant: the loop stops at the first destination without a window
LoopStopsOnNull(idx, n, created) == idx < n /\ created

\* the for loop of phase 1 goes on to a next destination after the one at
\* idx, whether or not a window was created for it
LoopContinues(idx, n, created) == idx < n

\* the entry of createdWindows for the window at hand
CreatedWindow(window, provider) ==
  [windowId |-> window.id, tabId |-> window.tabId, provider |-> provider]

\* nothing has been sent to a tab yet
EmptyLog == [polled |-> FALSE, pings |-> 0, pongs |-> 0, injects |-> <<>>]

\* a waitAndInjectQuery call that has not made its first step
NewTask == [pc |-> "load", polls |-> 0, pings |-> 0]

\* createAndPositionWindow has returned for destination i (records is
\* createdWindows after it): the settling delay, then the next destination,
\* or phase 2
FinishIteration(created, records) ==
  /\ createdWindows' = records
  /\ tasks' = [k \in 1..Len(records) |-> IF k \in DOMAIN tasks THEN tasks[k] ELSE NewTask]
  /\ win' = NoWindow
  /\ attempt' = 0
  /\ IF LoopContinues(i, Len(selectedProviders), created)
       THEN /\ i' = i + 1
            /\ pc' = "create"
       ELSE /\ i' = i
            /\ pc' = "phase2"

\* chrome.windows.create for destination i and the check of window.id
CreateWindow ==
  /\ pc = "create"
  /\ LET args == CreateArgs(selectedProviders, positions, i)
     IN /\ createCalls' = Append(createCalls, args)
        /\ \/ /\ Throw("windows.create")
              /\ UNCHANGED << i, win, attempt, createdWindows, tasks, nextId,
                              tabUrl, verifyState, tabLog >>
           \/ \* a window without an id: logged, null
              /\ FinishIteration(FALSE, createdWindows)
              /\ UNCHANGED << response, nextId, tabUrl, verifyState, tabLog,
                              thrown >>
           \/ \E hasTab \in BOOLEAN, b \in Placements(args.rect) :
                /\ win' = [id |-> nextId,
                           tabId |-> IF hasTab THEN nextId + 1 ELSE 0,
                           bounds |-> b]
                /\ nextId' = nextId + 2
                /\ tabUrl' = IF hasTab THEN tabUrl @@ ((nextId + 1) :> args.url)
                                       ELSE tabUrl
                /\ tabLog' = IF hasTab THEN tabLog @@ ((nextId + 1) :> EmptyLog)
                                       ELSE tabLog
                /\ verifyState' = [verifyState EXCEPT ![i] = "running"]
                /\ attempt' = 0
                /\ pc' = "verify"
                /\ UNCHANGED << response, i, createdWindows, tasks, thrown >>
  /\ UNCHANGED << storage, payload, selectedProviders, screen, positions,
                  launched >>
  /\ UNCHANGED << incoming, displayInfo, lastCall, adapterVars, moduleVars >>

\* variant: the loop of verifyAndCorrectPosition does not count its attempts
RetrySameAttempt(a) == a

\* verifyAndCorrectPosition: attempt++
NextAttempt(a) == a + 1

\* verifyAndCorrectPosition: chrome.windows.get and the comparison
VerifyGet ==
  /\ pc = "verify"
  /\ attempt < maxRetries
  /\ \/ /\ Throw("windows.get")
        /\ UNCHANGED verifyState
     \/ /\ isCorrect(win.bounds, positions[i])
        /\ verifyState' = [verifyState EXCEPT ![i] = "returned"]
        /\ pc' = "tabs"
        /\ UNCHANGED << response, thrown >>
     \/ /\ ~isCorrect(win.bounds, positions[i])
        /\ pc' = "update"
        /\ UNCHANGED << response, thrown, verifyState >>
  /\ UNCHANGED << storage, payload, selectedProviders, screen, positions, i,
                  win, attempt, createdWindows, launched, tasks, nextId, tabUrl,
                  createCalls, tabLog >>
  /\ UNCHANGED << incoming, displayInfo, lastCall, adapterVars, moduleVars >>

\* verifyAndCorrectPosition: chrome.windows.update, which the window manager
\* honours or ignores, and the delay before the next attempt
VerifyUpdate ==
  /\ pc = "update"
  /\ \/ /\ Throw("windows.update")
        /\ UNCHANGED << win, attempt >>
     \/ /\ \E honoured \in BOOLEAN :
             win' = IF honoured THEN [win EXCEPT !.bounds = positions[i]] ELSE win
        /\ attempt' = NextAttempt(attempt)
        /\ pc' = "verify"
        /\ UNCHANGED << response, thrown >>
  /\ UNCHANGED << storage, payload, selectedProviders, screen, positions, i,
                  createdWindows, launched, tasks, nextId, tabUrl, createCalls,
                  verifyState, tabLog >>
  /\ UNCHANGED << incoming, displayInfo, lastCall, adapterVars, moduleVars >>

\* verifyAndCorrectPosition: all attempts used, return false (only logged)
VerifyGiveUp ==
  /\ pc = "verify"
  /\ attempt >= maxRetries
  /\ verifyState' = [verifyState EXCEPT ![i] = "returned"]
  /\ pc' = "tabs"
  /\ UNCHANGED << storage, payload, response, selectedProviders, screen,
                  positions, i, win, attempt, createdWindows, launched, tasks,
                  nextId, tabUrl, createCalls, tabLog, thrown >>
  /\ UNCHANGED << incoming, displayInfo, lastCall, adapterVars, moduleVars >>

\* variant: the window is recorded whether or not it has a tab
HasNoTabNever(window) == FALSE

\* !window.tabs || window.tabs.length === 0 || !window.tabs[0].id
HasNoTab(window) == window.tabId = 0

\* createAndPositionWindow: the check of window.tabs and the return
CheckTabs ==
  /\ pc = "tabs"
  /\ IF HasNoTab(win)
       THEN FinishIteration(FALSE, createdWindows)
       ELSE FinishIteration(TRUE,
              Append(createdWindows, CreatedWindow(win, selectedProviders[i])))
  /\ UNCHANGED << storage, payload, response, selectedProviders, screen,
                  positions, launched, nextId, tabUrl, createCalls, verifyState,
                  tabLog, thrown >>
  /\ UNCHANGED << incoming, displayInfo, lastCall, adapterVars, moduleVars >>

(***************************************************************************)
(* Phase 2: waitAndInjectQuery, one call per created window, concurrently. *)
(***************************************************************************)
\* variant: each window is loaded and injected as soon as it is created
LaunchedWindowsEager == DOMAIN createdWindows

\* the created windows whose waitAndInjectQuery call has been started:
\* none before Promise.all(createdWindows.map(...)), all of them after
LaunchedWindows == IF launched THEN DOMAIN createdWindows ELSE {}

\* variant: the query is handed on as received
Phase2QueryRaw == payload.query

\* the query handed to every waitAndInjectQuery call
Phase2Query == trim(payload.query)

\* variant: any answer counts as ready
IsPongAnyAnswer(answer) == TRUE

\* waitForContentScript: response?.type === 'PONG'
IsPong(answer) == answer = "PONG"

\* what the adapter side may do with a PING: answer PONG, answer something
\* else (or nothing), or have the send rejected (no listener yet)
PingAnswers == {"PONG", "other", "rejected"}

\* variant: a failed handshake throws instead of returning
AfterHandshakeThrows(isReady) == IF isReady THEN "inject" ELSE "rejected"

\* waitAndInjectQuery after waitForContentScript has returned isReady
AfterHandshake(isReady) == IF isReady THEN "inject" ELSE "abandoned"

\* the INJECT_QUERY message of waitAndInjectQuery
InjectQueryMessage(createdWindow, query) ==
  [type |-> "INJECT_QUERY",
   payload |-> [query |-> query,
                inputSelector |-> createdWindow.provider.inputSelector,
                submitSelector |-> createdWindow.provider.submitSelector]]

\* the states in which a waitAndInjectQuery call has settled
Fulfilled == {"done", "sendFailed", "abandoned"}
Settled == Fulfilled \cup {"rejected"}

\* variant: an abandoned destination counts as a rejection
PromiseAllStrict(ts) ==
  IF \E k \in DOMAIN ts : ts[k].pc \in {"rejected", "abandoned"} THEN "rejected"
  ELSE IF \A k \in DOMAIN ts : ts[k].pc \in Fulfilled THEN "fulfilled"
  ELSE "pending"

\* Promise.all over the waitAndInjectQuery calls
PromiseAll(ts) ==
  IF \E k \in DOMAIN ts : ts[k].pc = "rejected" THEN "rejected"
  ELSE IF \A k \in DOMAIN ts : ts[k].pc \in Fulfilled THEN "fulfilled"
  ELSE "pending"

\* Promise.all(createdWindows.map((cw) => waitAndInjectQuery(cw, query.trim())))
StartPhase2 ==
  /\ pc = "phase2"
  /\ launched' = TRUE
  /\ pc' = "await"
  /\ UNCHANGED << storage, payload, response, selectedProviders, screen,
                  positions, i, win, attempt, createdWindows, tasks, nextId,
                  tabUrl, createCalls, verifyState, tabLog, thrown >>
  /\ UNCHANGED << incoming, displayInfo, lastCall, adapterVars, moduleVars >>

\* waitForTabLoad: one checkTab.  The tab is complete, or still loading with
\* the timeout elapsed or not, or chrome.tabs.get rejects (the tab is gone).
PollTab(k) ==
  /\ k \in LaunchedWindows
  /\ tasks[k].pc = "load"
  /\ LET tab == createdWindows[k].tabId
     IN tabLog' = [tabLog EXCEPT ![tab].polled = TRUE]
  /\ \/ /\ tasks' = [tasks EXCEPT ![k].pc = "rejected", ![k].polls = 0]
        /\ Rejects("tabs.get")
     \/ \* status complete, or the timeout has elapsed
        /\ tasks' = [tasks EXCEPT ![k].pc = "ping", ![k].polls = 0]
        /\ UNCHANGED thrown
     \/ \* still loading and within the timeout: setTimeout(checkTab, 100)
        /\ tasks[k].polls + 1 < MaxLoadPolls
        /\ tasks' = [tasks EXCEPT ![k].polls = @ + 1]
        /\ UNCHANGED thrown
  /\ UNCHANGED << storage, pc, payload, response, selectedProviders, screen,
                  positions, i, win, attempt, createdWindows, launched, nextId,
                  tabUrl, createCalls, verifyState >>
  /\ UNCHANGED << incoming, displayInfo, lastCall, adapterVars, moduleVars >>

\* variant: the loop gives up one PING early
MorePingsOneLess(sent) == sent + 1 < PingBudget

\* waitForContentScript: i < maxAttempts, after i++ has counted the PING
MorePings(sent) == sent < PingBudget

\* waitForContentScript: one PING and what follows from its answer
Ping(k) ==
  /\ k \in LaunchedWindows
  /\ tasks[k].pc = "ping"
  /\ tasks[k].pings < PingBudget
  /\ \E answer \in PingAnswers :
       LET tab == createdWindows[k].tabId
       IN /\ tabLog' = [tabLog EXCEPT ![tab].pings = @ + 1,
                                      ![tab].pongs = IF answer = "PONG" THEN @ + 1 ELSE @]
          /\ IF answer # "rejected" /\ IsPong(answer)
               THEN tasks' = [tasks EXCEPT ![k].pc = AfterHandshake(TRUE)]
               ELSE IF MorePings(tasks[k].pings + 1)
                 THEN tasks' = [tasks EXCEPT ![k].pings = @ + 1]
                 ELSE tasks' = [tasks EXCEPT ![k].pings = @ + 1,
                                             ![k].pc = AfterHandshake(FALSE)]
  /\ UNCHANGED << storage, pc, payload, response, selectedProviders, screen,
                  positions, i, win, attempt, createdWindows, launched, nextId,
                  tabUrl, createCalls, verifyState, thrown >>
  /\ UNCHANGED << incoming, displayInfo, lastCall, adapterVars, moduleVars >>

\* waitAndInjectQuery: chrome.tabs.sendMessage(tabId, message); a rejected
\* send is caught and logged
Inject(k) ==
  /\ k \in LaunchedWindows
  /\ tasks[k].pc = "inject"
  /\ LET tab == createdWindows[k].tabId
         message == InjectQueryMessage(createdWindows[k], Phase2Query)
     IN tabLog' = [tabLog EXCEPT ![tab].injects = Append(@, message.payload)]
  /\ \E sent \in BOOLEAN :
       tasks' = [tasks EXCEPT ![k].pc = IF sent THEN "done" ELSE "sendFailed"]
  /\ UNCHANGED << storage, pc, payload, response, selectedProviders, screen,
                  positions, i, win, attempt, createdWindows, launched, nextId,
                  tabUrl, createCalls, verifyState, thrown >>
  /\ UNCHANGED << incoming, displayInfo, lastCall, adapterVars, moduleVars >>

\* the await of Promise.all ends: return success, or the catch
Settle ==
  /\ pc = "await"
  /\ PromiseAll(tasks) # "pending"
  /\ IF PromiseAll(tasks) = "fulfilled"
       THEN /\ Return(Success)
            /\ UNCHANGED thrown
       ELSE /\ Catch("tabs.get")
            /\ UNCHANGED thrown
  /\ UNCHANGED << storage, payload, selectedProviders, screen, positions, i,
                  win, attempt, createdWindows, launched, tasks, nextId, tabUrl,
                  createCalls, verifyState, tabLog >>
  /\ UNCHANGED << incoming, displayInfo, lastCall, adapterVars, moduleVars >>

Next ==
  \/ \E p \in Payloads : SubmitQuery(p)
  \/ ResolveProviders
  \/ MeasureAndPlan
  \/ CreateWindow
  \/ VerifyGet
  \/ VerifyUpdate
  \/ VerifyGiveUp
  \/ CheckTabs
  \/ StartPhase2
  \/ \E k \in DOMAIN tasks : PollTab(k)
  \/ \E k \in DOMAIN tasks : Ping(k)
  \/ \E k \in DOMAIN tasks : Inject(k)
  \/ Settle

Spec == Init /\ [][Next]_vars

\* The event loop runs a continuation or timer that is ready, and the browser
\* settles every call made to it: some step is taken whenever one is possible.
FairSpec == Spec /\ WF_vars(Next)

\* the record after toggleProvider('claude', false)
ToggledStorage ==
  [DEFAULT_STORAGE_DATA EXCEPT !.providers[2].enabled = FALSE]

\* the service worker at rest over a record in which a provider is disabled
ToggledInit ==
  /\ storage = ToggledStorage
  /\ pc = "idle"
  /\ payload = NoPayload
  /\ response = <<>>
  /\ selectedProviders = <<>>
  /\ screen = FallbackScreen
  /\ positions = <<>>
  /\ i = 0
  /\ win = NoWindow
  /\ attempt = 0
  /\ createdWindows = <<>>
  /\ launched = FALSE
  /\ tasks = <<>>
  /\ nextId = 1
  /\ tabUrl = <<>>
  /\ createCalls = <<>>
  /\ verifyState = <<>>
  /\ tabLog = <<>>
  /\ thrown = {}
  /\ incoming = NoMessage
  /\ displayInfo = "unasked"
  /\ lastCall = NoCall
  /\ PageAtRest
  /\ ModuleLoaded

ToggledSpec == ToggledInit /\ [][Next]_vars

(***************************************************************************)
(* The Geometry Planner on its own: calculateWindowPositions applied to a  *)
(* screen, a number of destinations and a layout drawn from bounded sets.  *)
(***************************************************************************)
\* usable screen rectangles, with widths and heights of every residue
GeometryScreens ==
  [width : 1000..(1000 + WidthSpread), height : {700, 701},
   left : {0, 10}, top : {0, 25}]

\* one to four destinations, as many as there are stored providers
GeometryCounts == 1..Len(DEFAULT_PROVIDERS)

GeometryInit ==
  /\ \E l \in Layouts :
       storage = [DEFAULT_STORAGE_DATA EXCEPT !.settings.defaultLayout = l]
  /\ pc = "geometry"
  /\ payload = NoPayload
  /\ response = <<>>
  /\ \E n \in GeometryCounts :
       selectedProviders = SubSeq(DEFAULT_PROVIDERS, 1, n)
  /\ screen \in GeometryScreens
  /\ positions = <<>>
  /\ i = 0
  /\ win = NoWindow
  /\ attempt = 0
  /\ createdWindows = <<>>
  /\ launched = FALSE
  /\ tasks = <<>>
  /\ nextId = 1
  /\ tabUrl = <<>>
  /\ createCalls = <<>>
  /\ verifyState = <<>>
  /\ tabLog = <<>>
  /\ thrown = {}
  /\ incoming = NoMessage
  /\ displayInfo = "unasked"
  /\ lastCall = NoCall
  /\ PageAtRest
  /\ ModuleLoaded

\* const positions = calculateWindowPositions(screenDimensions, count, layout)
PlanLayout ==
  /\ pc = "geometry"
  /\ positions' = calculateWindowPositions(screen, Len(selectedProviders),
                                           storage.settings.defaultLayout)
  /\ pc' = "planned"
  /\ UNCHANGED << storage, payload, response, selectedProviders, screen, i, win,
                  attempt, createdWindows, launched, tasks, nextId, tabUrl,
                  createCalls, verifyState, tabLog, thrown, incoming,
                  displayInfo, lastCall, adapterVars, moduleVars >>

GeometryNext == PlanLayout

GeometrySpec == GeometryInit /\ [][GeometryNext]_vars

(***************************************************************************)
(* The coordinator behind its message listener: a message of any type      *)
(* arrives and handleMessage routes it.                                    *)
(***************************************************************************)
MessageNext ==
  \/ \E m \in Messages : handleMessage(m)
  \/ ResolveProviders
  \/ MeasureAndPlan
  \/ CreateWindow
  \/ VerifyGet
  \/ VerifyUpdate
  \/ VerifyGiveUp
  \/ CheckTabs
  \/ StartPhase2
  \/ \E k \in DOMAIN tasks : PollTab(k)
  \/ \E k \in DOMAIN tasks : Ping(k)
  \/ \E k \in DOMAIN tasks : Inject(k)
  \/ Settle

MessageSpec == Init /\ [][MessageNext]_vars

(***************************************************************************)
(* The storage module: addQueryToHistory, clearQueryHistory and            *)
(* updateSettings called one after another on the stored record.  Each     *)
(* reads the record, changes its copy and writes it back; the write may be *)
(* rejected by the browser, and the call then throws.                      *)
(***************************************************************************)
\* the texts handed to addQueryToHistory
HistoryQueries == Queries \cup { <<"q", " ", "r">>, <<"s">> }

\* the values updateSettings is given for maxHistoryItems
MaxChoices ==
  (0..HistoryCap) \cup {DEFAULT_STORAGE_DATA.settings.maxHistoryItems}

\* Partial<Settings> naming maxHistoryItems, defaultLayout or both
SettingsUpdates ==
  { [names |-> {"maxHistoryItems"},
     values |-> [DEFAULT_STORAGE_DATA.settings EXCEPT !.maxHistoryItems = n]] :
       n \in MaxChoices }
    \cup { [names |-> {"defaultLayout"},
            values |-> [DEFAULT_STORAGE_DATA.settings
                          EXCEPT !.defaultLayout = "horizontal"]],
           [names |-> {"maxHistoryItems", "defaultLayout"},
            values |-> [DEFAULT_STORAGE_DATA.settings
                          EXCEPT !.maxHistoryItems = 1,
                                 !.defaultLayout = "vertical"]] }

\* variant: the update replaces the settings record instead of being laid
\* over it
SpreadReplace(settings, updates) == updates.values

\* { ...settings, ...updates }
Spread(settings, updates) ==
  [maxHistoryItems |->
     IF "maxHistoryItems" \in updates.names
       THEN updates.values.maxHistoryItems ELSE settings.maxHistoryItems,
   keyboardShortcut |->
     IF "keyboardShortcut" \in updates.names
       THEN updates.values.keyboardShortcut ELSE settings.keyboardShortcut,
   defaultLayout |->
     IF "defaultLayout" \in updates.names
       THEN updates.values.defaultLayout ELSE settings.defaultLayout]

\* getStorageData: a copy of the stored record, its settings laid over the
\* default settings
getStorageData(stored) ==
  [providers |-> stored.providers,
   queryHistory |-> stored.queryHistory,
   settings |-> Spread(DEFAULT_STORAGE_DATA.settings,
                       [names |-> {"maxHistoryItems", "keyboardShortcut",
                                   "defaultLayout"},
                        values |-> stored.settings])]

\* variant: an entry equal to the new one is not taken out
filterNothing(history, trimmedQuery) == history

\* history.filter((q) => q !== trimmedQuery)
filter(history, trimmedQuery) ==
  SelectSeq(history, LAMBDA q : q # trimmedQuery)

\* variant: the new entry is cut off with the overflow, not the oldest one
sliceFromEnd(array, end) ==
  IF end >= Len(array) THEN array
  ELSE IF end <= 0 THEN <<>>
  ELSE SubSeq(array, Len(array) - end + 1, Len(array))

\* array.slice(0, end)
slice(array, end) ==
  LET stop == IF end < 0
                THEN (IF Len(array) + end < 0 THEN 0 ELSE Len(array) + end)
                ELSE (IF end > Len(array) THEN Len(array) ELSE end)
  IN SubSeq(array, 1, stop)

\* what an operation leaves in the log: its arguments, the record it found
\* and what became of its write ("none": it did not call setStorageData)
Call(op, query, updates, write) ==
  [op |-> op, query |-> query, updates |-> updates, before |-> storage,
   write |-> write]

\* setStorageData(data): chrome.storage.local.set resolves, or rejects and
\* leaves the record as it was
setStorageData(data, op, query, updates) ==
  \/ /\ storage' = data
     /\ lastCall' = Call(op, query, updates, "stored")
  \/ /\ storage' = storage
     /\ lastCall' = Call(op, query, updates, "rejected")

StorageFrame ==
  UNCHANGED << pc, payload, response, selectedProviders, screen, positions, i,
               win, attempt, createdWindows, launched, tasks, nextId, tabUrl,
               createCalls, verifyState, tabLog, thrown, incoming, displayInfo,
               adapterVars, moduleVars >>
(***************************************************************************)
\* variant: the early return is missing
NothingToAddNever(trimmedQuery) == FALSE

\* addQueryToHistory: if (!trimmedQuery) return
NothingToAdd(trimmedQuery) == trimmedQuery = <<>>

addQueryToHistory(query) ==
  /\ LET trimmedQuery == trim(query)
     IN IF NothingToAdd(trimmedQuery)
          THEN /\ storage' = storage
               /\ lastCall' = Call("addQueryToHistory", query, NoUpdates, "none")
          ELSE LET data == getStorageData(storage)
                   filteredHistory == filter(data.queryHistory, trimmedQuery)
                   newHistory == <<trimmedQuery>> \o filteredHistory
                   maxItems == data.settings.maxHistoryItems
               IN setStorageData(
                    [data EXCEPT !.queryHistory = slice(newHistory, maxItems)],
                    "addQueryToHistory", query, NoUpdates)
  /\ StorageFrame

clearQueryHistory ==
  /\ LET data == getStorageData(storage)
     IN setStorageData([data EXCEPT !.queryHistory = <<>>],
                       "clearQueryHistory", <<>>, NoUpdates)
  /\ StorageFrame

updateSettings(updates) ==
  /\ LET data == getStorageData(storage)
     IN setStorageData([data EXCEPT !.settings = Spread(data.settings, updates)],
                       "updateSettings", <<>>, updates)
  /\ StorageFrame

HistoryNext ==
  \/ \E query \in HistoryQueries : addQueryToHistory(query)
  \/ clearQueryHistory
  \/ \E updates \in SettingsUpdates : updateSettings(updates)

HistorySpec == Init /\ [][HistoryNext]_vars

(***************************************************************************)
(* The provider list of the stored record under toggleProvider and         *)
(* updateProviderOrder.                                                    *)
(***************************************************************************)
\* the id lists handed to updateProviderOrder: unknown ids, repeated ids and
\* lists that leave stored ids out are all among them
OrderedIdLists ==
  UNION { [1..n -> RequestIds] : n \in 0..MaxIds }

\* new Map(providers.map(p => [p.id, p])).get(id): of two entries under one
\* key the later one stays; a key never set yields undefined (the empty
\* sequence here, the value found in a one-element sequence)
providerMap(providers, id) ==
  LET at == { x \in DOMAIN providers : providers[x].id = id }
  IN IF at = {} THEN <<>>
     ELSE << providers[CHOOSE x \in at : \A y \in at : y <= x] >>

\* orderedIds.map(id => providerMap.get(id)).filter(p => p !== undefined)
RECURSIVE reorderedProviders(_, _)
reorderedProviders(providers, orderedIds) ==
  IF orderedIds = <<>> THEN <<>>
  ELSE providerMap(providers, Head(orderedIds))
         \o reorderedProviders(providers, Tail(orderedIds))

\* data.providers.filter(p => !orderedIdSet.has(p.id))
remainingProviders(providers, orderedIds) ==
  LET orderedIdSet == Range(orderedIds)
  IN SelectSeq(providers, LAMBDA p : p.id \notin orderedIdSet)

updateProviderOrder(orderedIds) ==
  /\ LET data == getStorageData(storage)
     IN setStorageData(
          [data EXCEPT !.providers =
             reorderedProviders(data.providers, orderedIds)
               \o remainingProviders(data.providers, orderedIds)],
          "updateProviderOrder", <<>>, NoUpdates)
  /\ StorageFrame

\* toggleProvider: the first provider of that id gets the flag; an id that is
\* not stored leaves the record unwritten
toggleProvider(id, enabled) ==
  /\ LET data == getStorageData(storage)
         found == { x \in DOMAIN data.providers : data.providers[x].id = id }
     IN IF found = {}
          THEN /\ storage' = storage
               /\ lastCall' = Call("toggleProvider", <<>>, NoUpdates, "none")
          ELSE LET first == CHOOSE x \in found : \A y \in found : x <= y
               IN setStorageData(
                    [data EXCEPT !.providers[first].enabled = enabled],
                    "toggleProvider", <<>>, NoUpdates)
  /\ StorageFrame

ProviderNext ==
  \/ \E orderedIds \in OrderedIdLists : updateProviderOrder(orderedIds)
  \/ \E id \in RequestIds, enabled \in BOOLEAN : toggleProvider(id, enabled)

ProviderSpec == Init /\ [][ProviderNext]_vars

(***************************************************************************)
(* Storage operations of two callers at once.  An operation awaits         *)
(* getStorageData and later awaits setStorageData; the steps of another    *)
(* caller can come in between.                                             *)
(***************************************************************************)
\* addQueryToHistory: the copy of the record with the query put in
withQuery(data, trimmedQuery) ==
  LET filteredHistory == filter(data.queryHistory, trimmedQuery)
      newHistory == <<trimmedQuery>> \o filteredHistory
      maxItems == data.settings.maxHistoryItems
  IN [data EXCEPT !.queryHistory = slice(newHistory, maxItems)]

\* updateSettings: the copy of the record with the updates laid over
withSettings(data, updates) ==
  [data EXCEPT !.settings = Spread(data.settings, updates)]

\* toggleProvider: the places of the providers of that id in the copy
providersFound(data, id) ==
  { x \in DOMAIN data.providers : data.providers[x].id = id }

\* toggleProvider: the copy of the record with the flag of the first one set
withFlag(data, id, enabled) ==
  LET found == providersFound(data, id)
      first == CHOOSE x \in found : \A y \in found : x <= y
  IN [data EXCEPT !.providers[first].enabled = enabled]

\* variant: a write leaves the stored history as it is
localSetKeepsHistory(stored, data) ==
  [data EXCEPT !.queryHistory = stored.queryHistory]

\* chrome.storage.local.set({ [STORAGE_KEY]: data }): the value under the key
\* is replaced
localSet(stored, data) == data

RaceFrame ==
  UNCHANGED << pc, payload, response, selectedProviders, screen, positions, i,
               win, attempt, createdWindows, launched, tasks, nextId, tabUrl,
               createCalls, verifyState, tabLog, thrown, incoming, displayInfo,
               lastCall, adapterVars, listenersInitialized, addListenerCalls,
               setupLog, popup >>

\* the operation of caller c has read the record and holds its changed copy
HasRead(c, op, query, id, enabled, updates, data) ==
  ops' = [ops EXCEPT ![c] =
            [pc |-> "read", op |-> op, query |-> query, id |-> id,
             enabled |-> enabled, updates |-> updates, found |-> storage,
             data |-> data, write |-> "none"]]

\* the operation of caller c has returned without a write
ReturnedUnwritten(c, op, query, id, enabled) ==
  ops' = [ops EXCEPT ![c] =
            [NoOperation EXCEPT !.pc = "done", !.op = op, !.query = query,
                                !.id = id, !.enabled = enabled,
                                !.found = storage]]

\* addQueryToHistory up to the answer of getStorageData
StartsAdd(c, query) ==
  /\ ops[c].pc = "idle"
  /\ LET trimmedQuery == trim(query)
     IN IF NothingToAdd(trimmedQuery)
          THEN ReturnedUnwritten(c, "addQueryToHistory", query, "", FALSE)
          ELSE HasRead(c, "addQueryToHistory", query, "", FALSE, NoUpdates,
                       withQuery(getStorageData(storage), trimmedQuery))
  /\ UNCHANGED storage
  /\ RaceFrame

\* updateSettings up to the answer of getStorageData
StartsSettings(c, updates) ==
  /\ ops[c].pc = "idle"
  /\ HasRead(c, "updateSettings", <<>>, "", FALSE, updates,
             withSettings(getStorageData(storage), updates))
  /\ UNCHANGED storage
  /\ RaceFrame

\* toggleProvider up to the answer of getStorageData
StartsToggle(c, id, enabled) ==
  /\ ops[c].pc = "idle"
  /\ LET data == getStorageData(storage)
     IN IF providersFound(data, id) = {}
          THEN ReturnedUnwritten(c, "toggleProvider", <<>>, id, enabled)
          ELSE HasRead(c, "toggleProvider", <<>>, id, enabled, NoUpdates,
                       withFlag(data, id, enabled))
  /\ UNCHANGED storage
  /\ RaceFrame

\* setStorageData(data) of the operation of caller c: the browser stores the
\* copy or rejects the write
Writes(c) ==
  /\ ops[c].pc = "read"
  /\ \/ /\ storage' = localSet(storage, ops[c].data)
        /\ ops' = [ops EXCEPT ![c].pc = "done", ![c].write = "stored"]
     \/ /\ storage' = storage
        /\ ops' = [ops EXCEPT ![c].pc = "done", ![c].write = "rejected"]
  /\ RaceFrame

RaceNext ==
  \/ \E c \in Callers, query \in HistoryQueries : StartsAdd(c, query)
  \/ \E c \in Callers, updates \in SettingsUpdates : StartsSettings(c, updates)
  \/ \E c \in Callers, id \in RequestIds, enabled \in BOOLEAN :
       StartsToggle(c, id, enabled)
  \/ \E c \in Callers : Writes(c)

RaceSpec == Init /\ [][RaceNext]_vars

(***************************************************************************)
(* The page adapter (content script query-injector): its message listener  *)
(* and the injectQuery calls it starts.  Each received message has its own *)
(* reply channel; the page (DOM, timers) is the environment of the steps.  *)
(***************************************************************************)
\* the message types that reach the listener; QUERY_SUBMITTED stands for any
\* type that is neither PING nor INJECT_QUERY
AdapterMessageTypes == {"PING", "INJECT_QUERY", "QUERY_SUBMITTED"}

\* the messages the orchestrator and the other extension pages send to a tab
AdapterMessages ==
  { IF type = "INJECT_QUERY"
      THEN InjectQueryMessage([provider |-> p], <<"q">>)
      ELSE [type |-> type,
            payload |-> [query |-> <<>>, inputSelector |-> "",
                         submitSelector |-> ""]] :
      type \in AdapterMessageTypes, p \in {DEFAULT_PROVIDERS[1]} }

PongMessage == [type |-> "PONG"]

\* variant: the listener leaves the answer to a PING for later
listenerRepliesNothing(message) == <<>>

\* what the listener passes to sendResponse before it returns
listenerReplies(message) ==
  IF message.type = "PING" THEN << PongMessage >> ELSE <<>>

\* the return value of the listener: true keeps the reply channel open
listenerReturns(message) == message.type = "INJECT_QUERY"

\* variant: the result is sent by the then-handler and by a second handler
thenSendResponseTwice(result) == << result, result >>

\* injectQuery(...).then(sendResponse): the calls of sendResponse made when
\* injectQuery has resolved with result
thenSendResponse(result) == << result >>

\* the page side shares no state with the service worker or the store
NotPage ==
  UNCHANGED << storage, pc, payload, response, selectedProviders, screen,
               positions, i, win, attempt, createdWindows, launched, tasks,
               nextId, tabUrl, createCalls, verifyState, tabLog, thrown,
               incoming, displayInfo, lastCall, moduleVars >>

AdapterFrame == NotPage /\ UNCHANGED << submitCall, lookup, script, editor >>

\* the listener runs for one message, to its return
onMessage(message) ==
  /\ Len(inbox) < MaxMessages
  /\ inbox' = Append(inbox,
       [message |-> message,
        pc |-> IF message.type = "INJECT_QUERY" THEN "waitInput" ELSE "returned",
        replies |-> listenerReplies(message),
        keptOpen |-> listenerReturns(message),
        steps |-> <<>>])
  /\ AdapterFrame

\* injectQuery of channel k returns result: its promise resolves and the
\* then-handler of the listener runs
Resolve(k, result, step) ==
  inbox' = [inbox EXCEPT ![k].pc = "returned",
                         ![k].replies = @ \o thenSendResponse(result),
                         ![k].steps = Append(@, step)]

\* injectQuery of channel k goes on to its next await
Advance(k, next, step) ==
  inbox' = [inbox EXCEPT ![k].pc = next, ![k].steps = Append(@, step)]

\* variant: the text entry is left out
NextAwaitSkipsText(at) ==
  IF at = "waitInput" THEN "waitSubmit" ELSE "clickSubmit"

\* injectQuery: the statement that follows a completed step
NextAwait(at) ==
  IF at = "waitInput" THEN "enterText"
  ELSE IF at = "enterText" THEN "waitSubmit"
  ELSE "clickSubmit"

\* the catch block of injectQuery
Unexpected == Failure(<<"Unexpected error: ", "thrown">>)

\* await waitForElement(inputSelector): an element, null at the timeout, or
\* an exception (a selector the page cannot parse)
WaitForInput(k) ==
  /\ k \in DOMAIN inbox
  /\ inbox[k].pc = "waitInput"
  /\ \/ Advance(k, NextAwait("waitInput"), "input found")
     \/ Resolve(k, Failure(<<"Input element not found: ",
                             inbox[k].message.payload.inputSelector>>),
                "input missing")
     \/ Resolve(k, Unexpected, "input lookup threw")
  /\ AdapterFrame

\* enterText(inputElement, query) and the 500 ms pause after it
EnterText(k) ==
  /\ k \in DOMAIN inbox
  /\ inbox[k].pc = "enterText"
  /\ \/ Advance(k, NextAwait("enterText"), "text entered")
     \/ Resolve(k, Unexpected, "text entry threw")
  /\ AdapterFrame

\* await waitForElement(submitSelector)
WaitForSubmit(k) ==
  /\ k \in DOMAIN inbox
  /\ inbox[k].pc = "waitSubmit"
  /\ \/ Advance(k, NextAwait("waitSubmit"), "submit found")
     \/ Resolve(k, Failure(<<"Submit button not found: ",
                             inbox[k].message.payload.submitSelector>>),
                "submit missing")
     \/ Resolve(k, Unexpected, "submit lookup threw")
  /\ AdapterFrame

\* what clickSubmit did before it returned; injectQuery hands it the input
\* element it found, so the click of a control that stayed disabled (the
\* last resort for a call without input element) is not among the outcomes
Submissions ==
  {"clicked enabled", "enter dispatched", "not an element"}

\* await clickSubmit(submitElement, inputElement); return {success: true}
ClickSubmit(k) ==
  /\ k \in DOMAIN inbox
  /\ inbox[k].pc = "clickSubmit"
  /\ \/ \E done \in Submissions : Resolve(k, Success, done)
     \/ Resolve(k, Unexpected, "submission threw")
  /\ AdapterFrame

\* a step of an injectQuery call in progress
InjectStep ==
  \E k \in 1..MaxMessages :
    WaitForInput(k) \/ EnterText(k) \/ WaitForSubmit(k) \/ ClickSubmit(k)

AdapterNext ==
  \/ \E message \in AdapterMessages : onMessage(message)
  \/ InjectStep

AdapterSpec == Init /\ [][AdapterNext]_vars

\* every timer of the page fires: a waitForElement times out, the pause
\* after the text entry ends, waitForEnabled gives up after its polls
AdapterFairSpec == AdapterSpec /\ WF_vars(InjectStep)

(***************************************************************************)
(* waitForElement of the page adapter on its own: one call over a document *)
(* that changes.  A selector text is a sequence of characters; the         *)
(* document is given by the selectors that match an element in it, and an  *)
(* element is named by the selector that finds it.                         *)
(***************************************************************************)
\* the single selectors of the model; the last one holds a comma
SimpleSelectors == { <<"a">>, <<"b">>, <<"[", ",", "]">> }

\* the selector texts handed to waitForElement
SelectorTexts ==
  { <<"a">>,
    <<"a", ",", " ", "b">>,
    <<"b", ",", "a">>,
    <<"[", ",", "]", ",", " ", "a">>,
    <<"b", ",", "[", ",", "]">>,
    <<" ", ",", "a">> }

\* the lookahead of the split pattern: the rest of the text holds brackets
\* only in closed pairs
lookahead(rest) ==
  LET brackets == SelectSeq(rest, LAMBDA c : c \in {"[", "]"})
  IN /\ Len(brackets) % 2 = 0
     /\ \A x \in DOMAIN brackets :
          brackets[x] = IF x % 2 = 1 THEN "[" ELSE "]"

\* variant: the text is split at every comma
RECURSIVE splitAtEveryComma(_)
splitAtEveryComma(text) ==
  LET commas == { x \in DOMAIN text : text[x] = "," }
  IN IF commas = {} THEN << text >>
     ELSE LET p == CHOOSE x \in commas : \A y \in commas : x <= y
          IN << SubSeq(text, 1, p - 1) >>
               \o splitAtEveryComma(SubSeq(text, p + 1, Len(text)))

\* selectors.split(pattern): the pattern is a comma, the whitespace after it,
\* and the lookahead
RECURSIVE split(_)
split(text) ==
  LET separators ==
        { x \in DOMAIN text :
            text[x] = "," /\ lookahead(trimStart(SubSeq(text, x + 1, Len(text)))) }
  IN IF separators = {} THEN << text >>
     ELSE LET p == CHOOSE x \in separators : \A y \in separators : x <= y
          IN << SubSeq(text, 1, p - 1) >>
               \o split(trimStart(SubSeq(text, p + 1, Len(text))))

\* queryWithMultipleSelectors: the first element found, <<>> for null
RECURSIVE firstFound(_, _)
firstFound(selectorList, dom) ==
  IF selectorList = <<>> THEN <<>>
  ELSE LET trimmed == trim(Head(selectorList))
       IN IF trimmed # <<>> /\ trimmed \in dom
            THEN << trimmed >>
            ELSE firstFound(Tail(selectorList), dom)

queryWithMultipleSelectors(selectors, dom) == firstFound(split(selectors), dom)

\* resolve(value) of the promise: only the first call settles it
resolve(call, value) ==
  [call EXCEPT !.resolveCalls = @ + 1,
               !.promise = IF @ = <<>> THEN << value >> ELSE @]

LookupFrame == NotPage /\ UNCHANGED << inbox, submitCall, script, editor >>

\* waitForElement(selector): the executor of the promise
waitForElement(selector) ==
  /\ lookup.pc = "idle"
  /\ LET existing == queryWithMultipleSelectors(selector, lookup.dom)
         call == [lookup EXCEPT !.pc = "called", !.selector = selector]
     IN lookup' = IF existing # <<>>
                    THEN resolve(call, existing)
                    ELSE [call EXCEPT !.observer = "observing",
                                      !.timer = "armed"]
  /\ LookupFrame

\* the page inserts or removes an element; a connected observer gets a record
DomChange ==
  /\ \E s \in SimpleSelectors :
       lookup' = [lookup EXCEPT
                    !.dom = IF s \in @ THEN @ \ {s} ELSE @ \cup {s},
                    !.records = @ \/ lookup.observer = "observing"]
  /\ LookupFrame

\* the callback of the MutationObserver
ObserverCallback ==
  /\ lookup.observer = "observing"
  /\ lookup.records
  /\ LET element == queryWithMultipleSelectors(lookup.selector, lookup.dom)
         taken == [lookup EXCEPT !.records = FALSE]
     IN lookup' = IF element # <<>>
                    THEN resolve([taken EXCEPT !.observer = "disconnected"],
                                 element)
                    ELSE taken
  /\ LookupFrame

\* the setTimeout callback: observer.disconnect(); resolve(null)
LookupTimeout ==
  /\ lookup.timer = "armed"
  /\ lookup' = resolve([lookup EXCEPT !.timer = "fired",
                                      !.observer = "disconnected",
                                      !.records = FALSE], <<>>)
  /\ LookupFrame

LookupNext ==
  \/ \E selector \in SelectorTexts : waitForElement(selector)
  \/ DomChange
  \/ ObserverCallback
  \/ LookupTimeout

LookupSpec == Init /\ [][LookupNext]_vars

\* the timer of waitForElement fires
LookupFairSpec == LookupSpec /\ WF_vars(LookupTimeout)

(***************************************************************************)
(* clickSubmit of the page adapter on its own: one call, its polls of the  *)
(* submit control and the submission it ends with.  The page changes the   *)
(* disabled and aria-disabled attributes of the control between polls.     *)
(***************************************************************************)
\* the aria-disabled attribute: absent, 'true' or 'false'
AriaValues == {"", "true", "false"}

\* variant: aria-disabled is not looked at
isDisabledAttributeOnly(disabled, ariaDisabled) == disabled

\* waitForEnabled: isDisabled
isDisabled(disabled, ariaDisabled) == disabled \/ ariaDisabled = "true"

\* submitElement.click()
ClickEvent == [type |-> "click", target |-> "submit"]

\* dispatchEnterKey(inputElement)
dispatchEnterKey ==
  << [type |-> "keydown", target |-> "input"],
     [type |-> "keypress", target |-> "input"],
     [type |-> "keyup", target |-> "input"] >>

\* one pass of the loop of waitForEnabled: the attributes are read; an
\* enabled control ends the loop, and clickSubmit clicks it and returns true
ReadControl(call) ==
  LET read == [call EXCEPT !.polls = @ + 1,
                           !.seen = [disabled |-> call.disabled,
                                     ariaDisabled |-> call.ariaDisabled]]
  IN IF ~isDisabled(call.disabled, call.ariaDisabled)
       THEN [read EXCEPT !.events = Append(@, ClickEvent),
                         !.result = TRUE,
                         !.pc = "returned"]
       ELSE [read EXCEPT !.pc = "waiting"]

\* clickSubmit after waitForEnabled has returned false
Fallback(call) ==
  IF call.hasInput
    THEN [call EXCEPT !.events = @ \o dispatchEnterKey,
                      !.result = TRUE,
                      !.pc = "returned"]
    ELSE [call EXCEPT !.events = Append(@, ClickEvent),
                      !.result = FALSE,
                      !.pc = "returned"]

ClickFrame == NotPage /\ UNCHANGED << inbox, lookup, script, editor >>

\* clickSubmit(submitElement, inputElement), to its first await or its return
clickSubmit(isHTMLElement, hasInput, disabled, ariaDisabled) ==
  /\ submitCall.pc = "idle"
  /\ LET call == [NoSubmitCall EXCEPT !.isHTMLElement = isHTMLElement,
                                      !.hasInput = hasInput,
                                      !.disabled = disabled,
                                      !.ariaDisabled = ariaDisabled]
     IN submitCall' = IF ~isHTMLElement
                        THEN [call EXCEPT !.result = FALSE, !.pc = "returned"]
                        ELSE ReadControl(call)
  /\ ClickFrame

\* the page sets or removes an attribute of the control during a wait
PageChangesControl ==
  /\ submitCall.pc = "waiting"
  /\ \E disabled \in BOOLEAN, ariaDisabled \in AriaValues :
       /\ << disabled, ariaDisabled >> #
            << submitCall.disabled, submitCall.ariaDisabled >>
       /\ submitCall' = [submitCall EXCEPT !.disabled = disabled,
                                           !.ariaDisabled = ariaDisabled]
  /\ ClickFrame

\* the 200 ms timer of waitForEnabled fires: the next pass of the loop, or
\* the end of the loop
PollTimer ==
  /\ submitCall.pc = "waiting"
  /\ submitCall' = IF submitCall.polls < waitForEnabledMaxRetries
                     THEN ReadControl(submitCall)
                     ELSE Fallback(submitCall)
  /\ ClickFrame

ClickNext ==
  \/ \E isHTMLElement, hasInput, disabled \in BOOLEAN, ariaDisabled \in AriaValues :
       clickSubmit(isHTMLElement, hasInput, disabled, ariaDisabled)
  \/ PageChangesControl
  \/ PollTimer

ClickSpec == Init /\ [][ClickNext]_vars

(***************************************************************************)
(* The provider script of a destination page: BaseProviderScript.  Its     *)
(* page holds at most one element per place a strategy looks at; an        *)
(* element is the style, the rectangle and the disabled attribute that     *)
(* the script reads.                                                       *)
(***************************************************************************)
\* window.innerHeight of the page
ViewportHeight == 800

\* an element that is shown, enabled and placed like a chat input
Sound ==
  [display |-> "block", visibility |-> "visible", opacity |-> "1",
   width |-> 400, height |-> 100, top |-> 600, disabled |-> FALSE]

PageElements ==
  { Sound,
    [Sound EXCEPT !.display = "none"],
    [Sound EXCEPT !.visibility = "hidden"],
    [Sound EXCEPT !.opacity = "0"],
    [Sound EXCEPT !.width = 0],
    [Sound EXCEPT !.height = 0],
    [Sound EXCEPT !.disabled = TRUE],
    [Sound EXCEPT !.width = 100, !.height = 20] }

isVisibleAndEnabled(element) ==
  /\ element.display # "none"
  /\ element.visibility # "hidden"
  /\ element.opacity # "0"
  /\ element.width > 0
  /\ element.height > 0
  /\ ~element.disabled

looksLikeMainInput(element) ==
  /\ element.top * 2 > ViewportHeight
  /\ element.width > MainInputMinWidth /\ element.height > MainInputMinHeight

\* detectInput: the place of the element it returns, "none" if found: false
detectInput(doc) ==
  IF doc["custom"] # <<>> THEN "custom"
  ELSE IF doc["selector"] # <<>> /\ isVisibleAndEnabled(doc["selector"][1])
    THEN "selector"
  ELSE IF doc["attribute"] # <<>> /\ isVisibleAndEnabled(doc["attribute"][1])
    THEN "attribute"
  ELSE IF /\ doc["editable"] # <<>>
          /\ isVisibleAndEnabled(doc["editable"][1])
          /\ looksLikeMainInput(doc["editable"][1])
    THEN "editable"
  ELSE "none"

\* detectSubmitButton: found
detectSubmitButton(doc) ==
  doc["submit"] # <<>> /\ isVisibleAndEnabled(doc["submit"][1])

\* something the script does that the page or the background can see
Effect(s, what) ==
  [s EXCEPT !.effects = Append(@, [what |-> what, destroyed |-> s.destroyed])]

\* notifyReady, after inputElement and isReady were set
foundInput(s, place) ==
  Effect([s EXCEPT !.inputElement = place, !.isReady = TRUE], "PROVIDER_READY")

\* variant: the timer of startObserving leaves the observer connected
detectionOverNever(s) == FALSE

\* the timer of startObserving: if (!this.isReady)
detectionOver(s) == ~s.isReady

\* observer?.disconnect() on the observer the script holds
disconnectHeld(s) ==
  IF s.holdsObserver
    THEN [s EXCEPT !.observer = "disconnected", !.records = FALSE]
    ELSE s

\* startObserving
startObserving(s) ==
  LET place == detectInput(s.doc)
  IN IF place # "none"
       THEN foundInput(s, place)
       ELSE [s EXCEPT !.observer = "observing", !.holdsObserver = TRUE,
                      !.timer = "armed"]

\* executeQuery up to the pause of setInputValue
executeQuery(s) ==
  IF s.inputElement = "none"
    THEN Effect([s EXCEPT !.pending = "done", !.exec = "failed"], "QUERY_FAILED")
    ELSE Effect([s EXCEPT !.pending = "done", !.exec = "paused"], "write")

\* submit, then the QUERY_SUBMITTED message of executeQuery
submit(s) ==
  LET done == [s EXCEPT !.exec = "done"]
      sent == IF s.customSubmit /\ s.inputElement # "none"
                THEN Effect(done, "custom submit")
              ELSE IF detectSubmitButton(s.doc) THEN Effect(done, "click")
              ELSE IF s.inputElement # "none" THEN Effect(done, "enter")
              ELSE done
  IN Effect(sent, "QUERY_SUBMITTED")

ScriptFrame == NotPage /\ UNCHANGED << inbox, submitCall, lookup, editor >>

\* init: startObserving, then checkForPendingQuery up to storage.local.get
init ==
  /\ script.life = "constructed"
  /\ \E customSubmit \in BOOLEAN :
       script' = [startObserving(script) EXCEPT
                    !.life = "initialized", !.customSubmit = customSubmit,
                    !.pending = "get"]
  /\ ScriptFrame

\* what a place of the page can hold: nothing or one of the elements
Contents(elements) == {<<>>} \cup { << e >> : e \in elements }

\* the page after a change at one place; a connected observer gets a record
changed(s, place, now) ==
  [s EXCEPT !.doc = [@ EXCEPT ![place] = now],
            !.records = @ \/ s.observer = "observing"]

\* the number of elements of the page that the strategies can find
Candidates(s) == Cardinality({ p \in Slots : s.doc[p] # <<>> })

\* the callback of the MutationObserver of startObserving
DetectionCallback ==
  /\ script.observer = "observing"
  /\ script.records
  /\ LET taken == [script EXCEPT !.records = FALSE]
         place == detectInput(script.doc)
     IN script' = IF script.isReady \/ place = "none"
                    THEN taken
                    ELSE disconnectHeld(foundInput(taken, place))
  /\ ScriptFrame

\* the setTimeout callback of startObserving
DetectionTimeout ==
  /\ script.timer = "armed"
  /\ LET fired == [script EXCEPT !.timer = "fired"]
     IN script' = IF detectionOver(script) THEN disconnectHeld(fired) ELSE fired
  /\ ScriptFrame

\* checkForPendingQuery: storage.local.get answers, with or without a query
PendingQueryRead ==
  /\ script.pending = "get"
  /\ \E query \in BOOLEAN :
       script' = [script EXCEPT !.pending = IF query THEN "remove" ELSE "done"]
  /\ ScriptFrame

\* checkForPendingQuery: storage.local.remove answers; waitForReady resolves
\* at once or starts its interval
PendingQueryRemoved ==
  /\ script.pending = "remove"
  /\ script' = IF script.isReady THEN executeQuery(script)
                ELSE [script EXCEPT !.pending = "polling"]
  /\ ScriptFrame

\* a tick of the interval of waitForReady; expired: more than
\* PAGE_READY_TIMEOUT has passed
ReadyPoll ==
  /\ script.pending = "polling"
  /\ \E expired \in BOOLEAN :
       script' = IF script.isReady THEN executeQuery(script)
                 ELSE IF expired THEN [script EXCEPT !.pending = "timed out"]
                 ELSE script
  /\ ScriptFrame

\* the pause of setInputValue ends: submit and the report
PauseOver ==
  /\ script.exec = "paused"
  /\ script' = submit(script)
  /\ ScriptFrame

\* destroy
destroy ==
  /\ script.life = "initialized"
  /\ ~script.destroyed
  /\ script' = [disconnectHeld(script) EXCEPT
                  !.holdsObserver = FALSE, !.inputElement = "none",
                  !.isReady = FALSE, !.destroyed = TRUE]
  /\ ScriptFrame

\* detection on its own, over every kind of element
PageChanges ==
  /\ \E place \in Slots, now \in Contents(PageElements) :
       /\ now # script.doc[place]
       /\ Candidates(changed(script, place, now)) <= MaxCandidates
       /\ script' = changed(script, place, now)
  /\ ScriptFrame

DetectNext ==
  \/ init
  \/ PageChanges
  \/ DetectionCallback
  \/ DetectionTimeout

DetectSpec == Init /\ [][DetectNext]_vars

\* the whole life of the script, over elements that are shown or not
ShownOrHidden == { Sound, [Sound EXCEPT !.display = "none"] }

PageShowsOrHides ==
  /\ \E place \in Slots, now \in Contents(ShownOrHidden) :
       /\ now # script.doc[place]
       /\ Candidates(changed(script, place, now)) <= MaxCandidates
       /\ script' = changed(script, place, now)
  /\ ScriptFrame

ScriptNext ==
  \/ init
  \/ PageShowsOrHides
  \/ DetectionCallback
  \/ DetectionTimeout
  \/ PendingQueryRead
  \/ PendingQueryRemoved
  \/ ReadyPoll
  \/ PauseOver
  \/ destroy

ScriptSpec == Init /\ [][ScriptNext]_vars

(***************************************************************************)
(* enterTextContentEditable of the page adapter on its own: one call on a  *)
(* contenteditable element.  The log holds what a listener of the element  *)
(* sees: every event with the text content at its dispatch, and every      *)
(* change of the text content.                                             *)
(***************************************************************************)
\* what the element holds before the call
Drafts == {"", "draft", "hello"}

\* the texts entered
Texts == {"", "hello", "query"}

InputEvent(type, inputType, data) ==
  [do |-> "dispatch", type |-> type, inputType |-> inputType, data |-> data]

SetTextContent(value) == [do |-> "set", value |-> value]

\* variant: the text is set before its beforeinput event is dispatched
fallbackSetsFirst(text) ==
  << InputEvent("beforeinput", "deleteContentBackward", <<>>),
     SetTextContent(""),
     InputEvent("input", "deleteContentBackward", <<>>),
     SetTextContent(text),
     InputEvent("beforeinput", "insertText", << text >>),
     InputEvent("input", "insertText", << text >>) >>

\* the statements of the branch if (!success), in program order
fallback(text) ==
  << InputEvent("beforeinput", "deleteContentBackward", <<>>),
     SetTextContent(""),
     InputEvent("input", "deleteContentBackward", <<>>),
     InputEvent("beforeinput", "insertText", << text >>),
     SetTextContent(text),
     InputEvent("input", "insertText", << text >>) >>

\* one statement carried out on the element
carriedOut(e, statement, by) ==
  IF statement.do = "set"
    THEN [e EXCEPT !.textContent = statement.value,
                   !.log = Append(@, [what |-> "textContent", by |-> by,
                                      textContent |-> statement.value])]
    ELSE [e EXCEPT !.log = Append(@, [what |-> statement.type, by |-> by,
                                      inputType |-> statement.inputType,
                                      data |-> statement.data,
                                      textContent |-> e.textContent])]

\* document.execCommand('delete') on the selected contents, when it works
nativeDelete(e) ==
  carriedOut(
    carriedOut(
      carriedOut(e, InputEvent("beforeinput", "deleteContentBackward", <<>>),
                 "browser"),
      SetTextContent(""), "browser"),
    InputEvent("input", "deleteContentBackward", <<>>), "browser")

\* document.execCommand('insertText', false, text), when it works
nativeInsert(e, text) ==
  carriedOut(
    carriedOut(
      carriedOut(e, InputEvent("beforeinput", "insertText", << text >>),
                 "browser"),
      SetTextContent(text), "browser"),
    InputEvent("input", "insertText", << text >>), "browser")

EditorFrame == NotPage /\ UNCHANGED << inbox, submitCall, lookup, script >>

\* the page restores a draft into the element
DraftRestored ==
  /\ editor.pc = "idle"
  /\ \E draft \in Drafts :
       /\ draft # editor.textContent
       /\ editor' = [editor EXCEPT !.textContent = draft]
  /\ EditorFrame

\* enterTextContentEditable up to if (!success); the two commands work or
\* return false
enterTextContentEditable(text) ==
  /\ editor.pc = "idle"
  /\ \E deleted \in BOOLEAN, success \in BOOLEAN :
       LET called == [editor EXCEPT !.text = text]
           cleared == IF deleted THEN nativeDelete(called) ELSE called
       IN editor' = IF success
                      THEN [nativeInsert(cleared, text) EXCEPT !.pc = "done"]
                      ELSE [cleared EXCEPT !.pc = "fallback", !.at = 1]
  /\ EditorFrame

\* the next statement of the fallback branch
FallbackStatement ==
  /\ editor.pc = "fallback"
  /\ LET program == fallback(editor.text)
         after == carriedOut(editor, program[editor.at], "fallback")
     IN editor' = IF editor.at = Len(program)
                    THEN [after EXCEPT !.pc = "done"]
                    ELSE [after EXCEPT !.at = @ + 1]
  /\ EditorFrame

EditorNext ==
  \/ DraftRestored
  \/ \E text \in Texts : enterTextContentEditable(text)
  \/ FallbackStatement

EditorSpec == Init /\ [][EditorNext]_vars

\* the synchronous fallback branch runs to its end
EditorFairSpec == EditorSpec /\ WF_vars(FallbackStatement)

(***************************************************************************)
(* The listener registration of the service worker: setupListeners and     *)
(* resetListeners, called any number of times after the module was loaded. *)
(***************************************************************************)
\* variant: the guard of setupListeners is missing
AlreadyInitializedNever(flag) == FALSE

\* setupListeners: if (listenersInitialized) return
AlreadyInitialized(flag) == flag

ListenerFrame ==
  UNCHANGED << storage, pc, payload, response, selectedProviders, screen,
               positions, i, win, attempt, createdWindows, launched, tasks,
               nextId, tabUrl, createCalls, verifyState, tabLog, thrown,
               incoming, displayInfo, lastCall, adapterVars, ops, popup >>

setupListeners ==
  /\ Len(setupLog) < MaxListenerCalls
  /\ setupLog' = Append(setupLog, "setupListeners")
  /\ IF AlreadyInitialized(listenersInitialized)
       THEN UNCHANGED << listenersInitialized, addListenerCalls >>
       ELSE /\ addListenerCalls' =
                 [e \in ListenerEvents |-> addListenerCalls[e] + 1]
            /\ listenersInitialized' = TRUE
  /\ ListenerFrame

resetListeners ==
  /\ Len(setupLog) < MaxListenerCalls
  /\ setupLog' = Append(setupLog, "resetListeners")
  /\ listenersInitialized' = FALSE
  /\ UNCHANGED addListenerCalls
  /\ ListenerFrame

ListenerNext == setupListeners \/ resetListeners

ListenerSpec == Init /\ [][ListenerNext]_vars

(***************************************************************************)
(* The popup window of the service worker: togglePopup, called by the      *)
(* action and command listeners, and the windows.onRemoved listener.  A    *)
(* call stops at each await; the calls of the two listeners and the        *)
(* browser's events come in any order.                                     *)
(***************************************************************************)
PopupFrame ==
  UNCHANGED << storage, pc, payload, response, selectedProviders, screen,
               positions, i, win, attempt, createdWindows, launched, tasks,
               nextId, tabUrl, createCalls, verifyState, tabLog, thrown,
               incoming, displayInfo, lastCall, adapterVars,
               listenersInitialized, addListenerCalls, setupLog, ops >>

\* the togglePopup call of listener t moves on
At(t, where, window) ==
  [popup EXCEPT !.calls[t] = [pc |-> where, window |-> window]]

\* togglePopup up to its first await: chrome.windows.get(popupWindowId) if
\* a window is tracked, getScreenDimensions() if not
togglePopup(t) ==
  /\ popup.calls[t].pc = "idle"
  /\ popup.toggles < MaxToggles
  /\ popup' = [(IF popup.popupWindowId # 0
                  THEN At(t, "get", popup.popupWindowId)
                  ELSE At(t, "screen", 0))
               EXCEPT !.toggles = @ + 1]
  /\ PopupFrame

\* chrome.windows.get answers: the window exists and
\* chrome.windows.remove(popupWindowId) is called with the id tracked now
\* (null makes the call throw), or the call rejects; catch resets the id
GetAnswered(t) ==
  /\ popup.calls[t].pc = "get"
  /\ popup' = IF popup.calls[t].window \in popup.open /\ popup.popupWindowId # 0
                THEN At(t, "remove", popup.popupWindowId)
                ELSE [At(t, "screen", 0) EXCEPT !.popupWindowId = 0]
  /\ PopupFrame

\* chrome.windows.remove answers: the window is closed, the id reset and the
\* call returns, or the window was gone already and catch resets the id
RemoveAnswered(t) ==
  /\ popup.calls[t].pc = "remove"
  /\ LET window == popup.calls[t].window
     IN popup' = IF window \in popup.open
                   THEN [At(t, "idle", 0) EXCEPT
                           !.open = @ \ {window},
                           !.removed = @ \cup {window},
                           !.popupWindowId = 0]
                   ELSE [At(t, "screen", 0) EXCEPT !.popupWindowId = 0]
  /\ PopupFrame

\* getScreenDimensions answers and chrome.windows.create is called
ScreenAnswered(t) ==
  /\ popup.calls[t].pc = "screen"
  /\ popup' = At(t, "create", 0)
  /\ PopupFrame

\* the browser opens the window asked for
WindowOpened(t) ==
  /\ popup.calls[t].pc = "create"
  /\ LET window == popup.windows + 1
     IN popup' = [At(t, "created", window) EXCEPT
                    !.windows = window, !.open = @ \cup {window}]
  /\ PopupFrame

\* chrome.windows.create answers: if (window.id) popupWindowId = window.id
CreateAnswered(t) ==
  /\ popup.calls[t].pc = "created"
  /\ \E hasId \in BOOLEAN :
       popup' = IF hasId
                  THEN [At(t, "idle", 0) EXCEPT
                          !.popupWindowId = popup.calls[t].window]
                  ELSE At(t, "idle", 0)
  /\ PopupFrame

\* the user closes a popup window
UserCloses ==
  /\ \E window \in popup.open :
       popup' = [popup EXCEPT !.open = @ \ {window},
                              !.removed = @ \cup {window}]
  /\ PopupFrame

\* the windows.onRemoved listener runs for a window that was closed
onRemoved ==
  /\ \E windowId \in popup.removed :
       popup' = [popup EXCEPT
                   !.removed = @ \ {windowId},
                   !.popupWindowId = IF windowId = @ THEN 0 ELSE @]
  /\ PopupFrame

PopupNext ==
  \/ \E t \in Togglers : togglePopup(t)
  \/ \E t \in Togglers : GetAnswered(t)
  \/ \E t \in Togglers : RemoveAnswered(t)
  \/ \E t \in Togglers : ScreenAnswered(t)
  \/ \E t \in Togglers : WindowOpened(t)
  \/ \E t \in Togglers : CreateAnswered(t)
  \/ UserCloses
  \/ onRemoved

PopupSpec == Init /\ [][PopupNext]_vars

(***************************************************************************)
(* Vocabulary of the properties.                                           *)
(***************************************************************************)
\* q is empty or holds whitespace only
IsBlank(q) == \A x \in DOMAIN q : q[x] \in Whitespace

\* q without its leading and trailing whitespace
Stripped(q) ==
  LET solid == { x \in DOMAIN q : q[x] \notin Whitespace }
  IN IF solid = {}
       THEN <<>>
       ELSE SubSeq(q, CHOOSE x \in solid : \A y \in solid : x <= y,
                      CHOOSE x \in solid : \A y \in solid : x >= y)

StoredIds == { storage.providers[x].id : x \in DOMAIN storage.providers }

StoredProvider(id) ==
  CHOOSE p \in Range(storage.providers) : p.id = id

IsStored(id) == id \in StoredIds

\* the ids of the request that name a stored provider, in request order
Resolvable == SelectSeq(payload.providerIds, IsStored)

\* the handler has returned a failure whose error holds text
FailedWith(text) ==
  /\ Len(response) = 1
  /\ ~response[1].success
  /\ text \in Range(response[1].error)

Succeeded == Len(response) = 1 /\ response[1].success

\* no chrome.windows.create call was made and nothing was sent to any tab
NothingOpened == createCalls = <<>> /\ DOMAIN tabLog = {}

\* the request has got past the validation of SubmitQuery
Submitted == pc # "idle"

\* C1: a request whose query is empty or whitespace-only is answered
\* {success:false} with 'Query cannot be empty', whatever its id list, and
\* nothing is opened or sent.
C1_EmptyQueryRefused ==
  (Submitted /\ IsBlank(payload.query)) =>
    (FailedWith("Query cannot be empty") /\ pc = "returned" /\ NothingOpened)

C1_Witness ==
  /\ pc = "returned"
  /\ payload.query = <<" ", "\t">>
  /\ payload.hasIds
  /\ payload.providerIds = <<"chatgpt", "nonexistent">>
  /\ FailedWith("Query cannot be empty")

\* C2: a request with a non-blank query and an empty or missing id list is
\* answered {success:false} with 'At least one provider must be selected',
\* and no window is created.
C2_NoDestinationRefused ==
  (Submitted /\ ~IsBlank(payload.query)
     /\ (~payload.hasIds \/ payload.providerIds = <<>>)) =>
    (FailedWith("At least one provider must be selected")
       /\ pc = "returned" /\ NothingOpened)

C2_Witness ==
  /\ pc = "returned"
  /\ payload.query = <<"q">>
  /\ payload.hasIds
  /\ payload.providerIds = <<>>
  /\ FailedWith("At least one provider must be selected")

\* C3: a request with a non-blank query and a non-empty id list none of whose
\* ids is stored is answered {success:false} with 'No valid providers found',
\* and no window is created.
C3_UnknownIdsRefused ==
  (pc \notin {"idle", "storage"} /\ ~IsBlank(payload.query) /\ payload.hasIds
     /\ payload.providerIds # <<>>
     /\ \A x \in DOMAIN payload.providerIds : ~IsStored(payload.providerIds[x])) =>
    (FailedWith("No valid providers found") /\ pc = "returned" /\ NothingOpened)

C3_Witness ==
  /\ pc = "returned"
  /\ payload.query = <<"q">>
  /\ payload.hasIds
  /\ payload.providerIds = <<"nonexistent", "nonexistent">>
  /\ FailedWith("No valid providers found")

\* phase 1 has run to its end: the loop has left its last destination
Phase1Done == pc \in {"phase2", "await"} \/ launched

\* every waitAndInjectQuery call that was started has settled, and the
\* handler has returned
Quiescent ==
  /\ pc = "returned"
  /\ \A k \in LaunchedWindows : tasks[k].pc \in Settled

\* the browser calls of phase 1
Phase1Calls == {"windows.create", "windows.get", "windows.update"}

\* what was addressed to the tab of the k-th created window
LogOf(k) == tabLog[createdWindows[k].tabId]

C7_SilentAdapterAbandoned ==
  /\ \A k \in DOMAIN createdWindows :
       /\ (LogOf(k).pings = PingBudget /\ LogOf(k).pongs = 0) =>
            (tasks[k].pc = "abandoned" /\ LogOf(k).injects = <<>>)
       /\ tasks[k].pc = "abandoned" =>
            (LogOf(k).pings = PingBudget /\ LogOf(k).pongs = 0)
  /\ (pc = "returned" /\ launched
        /\ \A k \in DOMAIN tasks : tasks[k].pc \in Fulfilled) => Succeeded

C7_Witness ==
  /\ pc = "returned"
  /\ Succeeded
  /\ Len(createdWindows) = 2
  /\ tasks[1].pc = "abandoned"
  /\ LogOf(1).pings = PingBudget
  /\ tasks[2].pc = "done"

\* C8: nothing of phase 2 (page-load poll, PING, INJECT_QUERY) is issued
\* before create-and-position has finished for every resolved destination,
\* and a chrome.windows.create call is issued only when the position
\* verification of every earlier destination has returned.
C8_PhasesNotInterleaved ==
  /\ \A t \in DOMAIN tabLog :
       (tabLog[t].polled \/ tabLog[t].pings > 0 \/ tabLog[t].injects # <<>>) =>
         /\ Len(createCalls) = Len(selectedProviders)
         /\ pc \notin {"create", "verify", "update", "tabs"}
         /\ \A x \in DOMAIN verifyState : verifyState[x] # "running"
  /\ \A x \in DOMAIN createCalls :
       \A y \in 1..(x - 1) : verifyState[y] # "running"

C8_Witness ==
  /\ Len(createdWindows) = 2
  /\ tabLog[createdWindows[1].tabId].polled
  /\ ~tabLog[createdWindows[2].tabId].polled

\* C9: INJECT_QUERY is sent to a tab only after that tab has answered a PING
\* with PONG, and at most once per created window.
C9_InjectOnlyAfterPong ==
  \A t \in DOMAIN tabLog :
    /\ Len(tabLog[t].injects) <= 1
    /\ tabLog[t].injects # <<>> => tabLog[t].pongs >= 1

C9_Witness ==
  \E t \in DOMAIN tabLog :
    /\ Len(tabLog[t].injects) = 1
    /\ tabLog[t].pings = 2
    /\ tabLog[t].pongs = 1

\* C10: every INJECT_QUERY carries the query without its leading and
\* trailing whitespace and the input and submit selectors of the provider at
\* whose URL the tab was opened.
C10_InjectPayload ==
  \A t \in DOMAIN tabLog :
    \A x \in DOMAIN tabLog[t].injects :
      LET m == tabLog[t].injects[x]
      IN /\ m.query = Stripped(payload.query)
         /\ \E y \in DOMAIN storage.providers :
              /\ storage.providers[y].newChatUrl = tabUrl[t]
              /\ m.inputSelector = storage.providers[y].inputSelector
              /\ m.submitSelector = storage.providers[y].submitSelector

C10_Witness ==
  /\ payload.query = <<" ", "q", " ", "r", "\n">>
  /\ payload.providerIds = <<"chatgpt", "claude">>
  /\ Len(createdWindows) = 2
  /\ Len(LogOf(2).injects) = 1
  /\ LogOf(2).injects[1].query = <<"q", " ", "r">>
  /\ LogOf(2).injects[1].inputSelector = "[contenteditable=true]"

Planned(n) == pc = "planned" /\ Len(selectedProviders) = n

RightEdge(rect) == rect.left + rect.width

BottomEdge(rect) == rect.top + rect.height

\* the rectangles lie side by side from the screen's left edge, each with
\* the screen's top and full height
SideBySide ==
  /\ positions[1].left = screen.left
  /\ \A k \in 2..Len(positions) :
       positions[k].left = RightEdge(positions[k - 1])
  /\ \A k \in DOMAIN positions :
       /\ positions[k].top = screen.top
       /\ positions[k].height = screen.height

\* C12 as stated: for 2 or 3 destinations the strips tile the screen width
\* exactly, the last one ending at the screen's right edge.
C12_StripsTileExactly ==
  (Planned(2) \/ Planned(3)) =>
    /\ Len(positions) = Len(selectedProviders)
    /\ SideBySide
    /\ RightEdge(positions[Len(positions)]) = RightEdge(screen)

\* C12: for 2 or 3 destinations the strips are equally wide, lie side by
\* side from the screen's left edge without gap or overlap, each with the
\* screen's top and full height, and the last one ends at the screen's right
\* edge less the remainder of the width by the count: at the edge itself
\* exactly when the count divides the width.
C12_StripsTileUpToRemainder ==
  (Planned(2) \/ Planned(3)) =>
    LET n == Len(selectedProviders)
    IN /\ Len(positions) = n
       /\ SideBySide
       /\ \A k \in DOMAIN positions : positions[k].width = positions[1].width
       /\ RightEdge(positions[n]) = RightEdge(screen) - (screen.width % n)

\* three strips on a screen 1001 px wide stop 2 px short of its right edge
C12_Witness ==
  /\ Planned(3)
  /\ screen.width = 1001
  /\ screen.left = 10
  /\ RightEdge(positions[3]) = RightEdge(screen) - 2

Overlap(a, b) ==
  /\ a.left < RightEdge(b)
  /\ b.left < RightEdge(a)
  /\ a.top < BottomEdge(b)
  /\ b.top < BottomEdge(a)

Inside(a, b) ==
  /\ b.left <= a.left
  /\ RightEdge(a) <= RightEdge(b)
  /\ b.top <= a.top
  /\ BottomEdge(a) <= BottomEdge(b)

Area(rect) == rect.width * rect.height

\* the planner has been applied to four destinations under the grid layout
PlannedGrid == Planned(4) /\ storage.settings.defaultLayout = "grid"

\* four rectangles inside the screen, no two overlapping, in the order
\* top-left, top-right, bottom-left, bottom-right
TwoByTwo ==
  /\ Len(positions) = 4
  /\ \A k \in 1..4 : Inside(positions[k], screen)
  /\ \A k, l \in 1..4 : k # l => ~Overlap(positions[k], positions[l])
  /\ positions[1].left = screen.left /\ positions[1].top = screen.top
  /\ positions[2].left = RightEdge(positions[1])
  /\ positions[2].top = screen.top
  /\ positions[3].left = screen.left
  /\ positions[3].top = BottomEdge(positions[1])
  /\ positions[4].left = positions[2].left
  /\ positions[4].top = positions[3].top

\* C13 as stated: the four rectangles of the grid partition the screen
\* exactly, covering the whole of it.
C13_GridPartitionsExactly ==
  PlannedGrid =>
    /\ TwoByTwo
    /\ Area(positions[1]) + Area(positions[2]) + Area(positions[3])
         + Area(positions[4]) = Area(screen)

\* C13: for four destinations under the grid layout the planner returns four
\* equal rectangles inside the screen, no two overlapping, ordered top-left,
\* top-right, bottom-left, bottom-right and adjoining at the middle; they
\* reach the screen's right edge less 1 px when the width is odd and its
\* bottom edge less 1 px when the height is odd, and cover the whole screen
\* exactly when both are even.
C13_GridPartitionsUpToOddPixel ==
  PlannedGrid =>
    /\ TwoByTwo
    /\ \A k \in 1..4 :
         /\ positions[k].width = positions[1].width
         /\ positions[k].height = positions[1].height
    /\ RightEdge(positions[4]) = RightEdge(screen) - (screen.width % 2)
    /\ BottomEdge(positions[4]) = BottomEdge(screen) - (screen.height % 2)

\* a grid on a screen of 1001 x 701 leaves the last column and row of
\* pixels uncovered
C13_Witness ==
  /\ PlannedGrid
  /\ screen.width = 1001 /\ screen.height = 701
  /\ screen.left = 10 /\ screen.top = 25
  /\ RightEdge(positions[4]) = RightEdge(screen) - 1
  /\ BottomEdge(positions[4]) = BottomEdge(screen) - 1

\* phase 1 has run to its end for a request with two resolved destinations
TwoDestinationsOpened == Phase1Done /\ Len(selectedProviders) = 2

DisplayQueryFailed == displayInfo = "failed"

\* C15: if the display query throws or returns no display, the layout is
\* planned against 1920x1080 at (0,0) and the request goes on to create its
\* windows at those rectangles; if it fails at all, it fails because a browser
\* call about a window or tab rejected, never because of the display query.
C15_FallbackOnDisplayFailure ==
  DisplayQueryFailed =>
    /\ screen = [width |-> 1920, height |-> 1080, left |-> 0, top |-> 0]
    /\ Len(positions) = Len(selectedProviders)
    /\ \A k \in DOMAIN positions :
         Inside(positions[k], screen) /\ Area(positions[k]) > 0
    /\ \A x \in DOMAIN createCalls : createCalls[x].rect = positions[x]
    /\ (pc = "create" /\ i = 1) \/ createCalls # <<>>
    /\ pc = "returned" =>
         \/ Succeeded
         \/ /\ thrown # {}
            /\ thrown \subseteq Phase1Calls \cup {"tabs.get"}
            /\ FailedWith("Failed to open windows: ")

\* the display query failed and the request succeeded with two windows
\* side by side on the fallback rectangle
C15_Witness ==
  /\ displayInfo = "failed"
  /\ pc = "returned"
  /\ Succeeded
  /\ Len(createCalls) = 2
  /\ createCalls[1].rect = [left |-> 0, top |-> 0, width |-> 960, height |-> 1080]
  /\ createCalls[2].rect = [left |-> 960, top |-> 0, width |-> 960, height |-> 1080]

\* C16: handleMessage routes by the type tag.  A SUBMIT_QUERY message is
\* handled by handleQuerySubmit with the message's payload; a message with
\* any other tag is answered {success:false} with an error naming that tag,
\* no window is created, nothing is sent to a tab and storage is neither
\* read nor written.
C16_RoutedByTag ==
  /\ incoming.type = "SUBMIT_QUERY" =>
       /\ Submitted
       /\ payload = incoming.payload
       /\ ~FailedWith("Unknown message type: ")
       /\ IsBlank(payload.query) => FailedWith("Query cannot be empty")
  /\ incoming.type \notin {"", "SUBMIT_QUERY"} =>
       /\ pc = "returned"
       /\ response = << [success |-> FALSE,
                         error |-> <<"Unknown message type: ", incoming.type>>] >>
       /\ NothingOpened
       /\ payload = NoPayload
       /\ selectedProviders = <<>>
       /\ storage = DEFAULT_STORAGE_DATA
       /\ lastCall.op = "none"

\* a message tagged UNKNOWN_TYPE has been refused by name
C16_Witness ==
  /\ incoming.type = "UNKNOWN_TYPE"
  /\ pc = "returned"
  /\ FailedWith("UNKNOWN_TYPE")
  /\ NothingOpened

\* the last storage operation was addQueryToHistory
Added == lastCall.op = "addQueryToHistory"

\* C17: addQueryToHistory with a query whose trimmed text is empty is a
\* no-op: it calls no write, and the stored history, provider list and
\* settings are what they were before the call.
C17_BlankQueryIsNoOp ==
  (Added /\ IsBlank(lastCall.query)) =>
    /\ lastCall.write = "none"
    /\ storage.queryHistory = lastCall.before.queryHistory
    /\ storage.providers = lastCall.before.providers
    /\ storage.settings = lastCall.before.settings

\* a whitespace-only query was added to a history of two entries, which is
\* still there
C17_Witness ==
  /\ Added
  /\ lastCall.query = <<" ", "\t">>
  /\ lastCall.write = "none"
  /\ storage.queryHistory = << <<"s">>, <<"q">> >>

\* the last storage operation was addQueryToHistory with a query that is not
\* blank, and its write was stored
AddStored ==
  Added /\ ~IsBlank(lastCall.query) /\ lastCall.write = "stored"

NoDuplicates(history) ==
  \A x, y \in DOMAIN history : x # y => history[x] # history[y]

\* C18: no entry appears twice in the stored history after any sequence of
\* addQueryToHistory and clearQueryHistory calls (updateSettings calls
\* included); adding a text whose trimmed form is already an entry puts that
\* entry first and adds no second copy, provided the maximum is at least 1.
C18_NoDuplicateEntries ==
  /\ NoDuplicates(storage.queryHistory)
  /\ (AddStored
        /\ Stripped(lastCall.query) \in Range(lastCall.before.queryHistory)
        /\ lastCall.before.settings.maxHistoryItems >= 1) =>
       /\ storage.queryHistory[1] = Stripped(lastCall.query)
       /\ Len(storage.queryHistory) <= Len(lastCall.before.queryHistory)
       /\ Range(storage.queryHistory) \subseteq Range(lastCall.before.queryHistory)

\* ' q r\n' was added to the history (s, q r): the result is (q r, s)
C18_Witness ==
  /\ AddStored
  /\ lastCall.query = <<" ", "q", " ", "r", "\n">>
  /\ lastCall.before.queryHistory = << <<"s">>, <<"q", " ", "r">> >>
  /\ storage.queryHistory = << <<"q", " ", "r">>, <<"s">> >>

\* C19 as stated: in every state reached by addQueryToHistory,
\* clearQueryHistory and updateSettings calls the stored history is no longer
\* than settings.maxHistoryItems, and an addition that overflows the maximum
\* drops the entries at the old end.
C19_HistoryWithinMaximum ==
  /\ Len(storage.queryHistory) <= storage.settings.maxHistoryItems
  /\ (AddStored /\ lastCall.before.settings.maxHistoryItems >= 1) =>
       \A x \in DOMAIN storage.queryHistory :
         x > 1 => storage.queryHistory[x] \in Range(lastCall.before.queryHistory)

\* where entry e stood in the history the last call found
PlaceBefore(e) ==
  CHOOSE k \in DOMAIN lastCall.before.queryHistory :
    lastCall.before.queryHistory[k] = e

\* C20: after addQueryToHistory(q) with a q that is not blank and a maximum
\* of at least 1, the first entry is the trimmed q, and the entries after it
\* are entries the history held before, other than q, in the order they had.
C20_MostRecentFirst ==
  (AddStored /\ lastCall.before.settings.maxHistoryItems >= 1) =>
    LET history == storage.queryHistory
    IN /\ history # <<>>
       /\ history[1] = Stripped(lastCall.query)
       /\ \A x \in 2..Len(history) :
            /\ history[x] \in Range(lastCall.before.queryHistory)
            /\ history[x] # history[1]
       /\ \A x, y \in 2..Len(history) :
            x < y => PlaceBefore(history[x]) < PlaceBefore(history[y])

\* 'q r' was added to the history (s, q) under a maximum of 2: it is first,
\* s follows, and q, the oldest, is gone
C20_Witness ==
  /\ AddStored
  /\ lastCall.query = <<"q", " ", "r">>
  /\ lastCall.before.settings.maxHistoryItems = 2
  /\ lastCall.before.queryHistory = << <<"s">>, <<"q">> >>
  /\ storage.queryHistory = << <<"q", " ", "r">>, <<"s">> >>

\* the ids of a provider list, in list order
IdsOf(providers) == [x \in DOMAIN providers |-> providers[x].id]

\* C21 as stated: whatever toggleProvider and updateProviderOrder calls were
\* made, with unknown ids, repeated ids or incomplete id lists, the stored
\* provider list holds each id once and holds the providers it held at the
\* start: none is lost, none is stored twice.
C21_ProvidersKept ==
  /\ \A x, y \in DOMAIN storage.providers :
       storage.providers[x].id = storage.providers[y].id => x = y
  /\ Range(IdsOf(storage.providers)) = Range(IdsOf(DEFAULT_PROVIDERS))
  /\ Len(storage.providers) = Len(DEFAULT_PROVIDERS)

SettingsFields == {"maxHistoryItems", "keyboardShortcut", "defaultLayout"}

\* C22: an updateSettings(updates) call whose write is stored gives each
\* settings field named in updates the value updates holds for it, and leaves
\* every other settings field, the provider list and the query history as
\* the call found them.
C22_PartialMerge ==
  (lastCall.op = "updateSettings" /\ lastCall.write = "stored") =>
    /\ \A f \in SettingsFields :
         storage.settings[f] =
           IF f \in lastCall.updates.names
             THEN lastCall.updates.values[f]
             ELSE lastCall.before.settings[f]
    /\ storage.providers = lastCall.before.providers
    /\ storage.queryHistory = lastCall.before.queryHistory

\* the layout alone was updated on a record whose maximum had been set to 1
\* and whose history held an entry: the maximum and the history stayed
C22_Witness ==
  /\ lastCall.op = "updateSettings"
  /\ lastCall.write = "stored"
  /\ lastCall.updates.names = {"defaultLayout"}
  /\ lastCall.before.settings.maxHistoryItems = 1
  /\ lastCall.before.settings.defaultLayout = "grid"
  /\ lastCall.before.queryHistory = << <<"s">> >>
  /\ storage.settings.maxHistoryItems = 1
  /\ storage.settings.defaultLayout = "horizontal"
  /\ storage.queryHistory = << <<"s">> >>

\* the setupListeners calls that were the first call of all or the first one
\* after a resetListeners call
FirstSetups ==
  { x \in DOMAIN setupLog :
      /\ setupLog[x] = "setupListeners"
      /\ \A y \in 1..(x - 1) :
           setupLog[y] = "setupListeners" =>
             \E z \in (y + 1)..(x - 1) : setupLog[z] = "resetListeners" }

\* C26: each of the five listeners has been registered once for the first
\* setupListeners call and once more for each setupListeners call that was
\* the first after a resetListeners call; the setupListeners calls in between
\* register nothing.
C26_ListenersRegisteredOnce ==
  \A e \in ListenerEvents : addListenerCalls[e] = Cardinality(FirstSetups)

\* three calls registered once; after a reset the first of two calls
\* registered again
C26_Witness ==
  /\ setupLog = << "setupListeners", "setupListeners", "setupListeners",
                   "resetListeners", "setupListeners", "setupListeners" >>
  /\ \A e \in ListenerEvents : addListenerCalls[e] = 2

\* the k-th message the adapter received is of the given type
Received(k, type) == k \in DOMAIN inbox /\ inbox[k].message.type = type

\* an injectQuery call is between its start and its return
InjectionInProgress(k) ==
  Received(k, "INJECT_QUERY") /\ inbox[k].pc # "returned"

\* C23: in every state each PING the adapter has received is answered, with
\* PONG and once, by the listener run that received it: the listener returned
\* false (no reply is left for later), whatever the injectQuery calls of the
\* tab are doing and whether or not one of them has found its input element.
C23_PingAnsweredAtOnce ==
  \A k \in DOMAIN inbox :
    Received(k, "PING") =>
      /\ inbox[k].replies = << PongMessage >>
      /\ ~inbox[k].keptOpen
      /\ inbox[k].pc = "returned"

\* a PING arrived while an injection was still waiting for its input
\* element, and another while an injection had found it
C23_Witness ==
  /\ Len(inbox) = 2
  /\ InjectionInProgress(1)
  /\ inbox[1].pc = "waitInput"
  /\ Received(2, "PING")
  /\ inbox[2].replies = << PongMessage >>

\* the replies to an INJECT_QUERY are never more than one, and the one sent
\* at the return of injectQuery is a MessageResponse
OneReplyAtMost(k) ==
  /\ Len(inbox[k].replies) <= 1
  /\ inbox[k].keptOpen
  /\ inbox[k].pc = "returned" =>
       /\ Len(inbox[k].replies) = 1
       /\ inbox[k].replies[1] \in
            {Success, Unexpected,
             Failure(<<"Input element not found: ",
                       inbox[k].message.payload.inputSelector>>),
             Failure(<<"Submit button not found: ",
                       inbox[k].message.payload.submitSelector>>)}

\* C24: every INJECT_QUERY the adapter receives is answered exactly once:
\* never twice, and, as the timers of the page fire, in the end once, be the
\* outcome a submission, a missing input element, a missing submit control
\* or an exception.
C24_ExactlyOneReply ==
  /\ [](\A k \in DOMAIN inbox : Received(k, "INJECT_QUERY") => OneReplyAtMost(k))
  /\ \A k \in 1..MaxMessages :
       Received(k, "INJECT_QUERY") ~>
         (Received(k, "INJECT_QUERY") /\ Len(inbox[k].replies) = 1)

\* one injection was answered after an exception in the text entry, another
\* after its submit control was not found
C24_Witness ==
  /\ Len(inbox) = 2
  /\ Received(1, "INJECT_QUERY")
  /\ inbox[1].steps = << "input found", "text entry threw" >>
  /\ inbox[1].replies = << Unexpected >>
  /\ Received(2, "INJECT_QUERY")
  /\ inbox[2].steps = << "input found", "text entered", "submit missing" >>
  /\ Len(inbox[2].replies) = 1
  /\ ~inbox[2].replies[1].success

\* the INJECT_QUERY payload that belongs to a provider and the request
PayloadFor(provider) ==
  [query |-> Stripped(payload.query),
   inputSelector |-> provider.inputSelector,
   submitSelector |-> provider.submitSelector]

\* C25: the ids of the request decide, the enabled flag does not: the
\* destinations resolved are the stored ones named in the request, disabled
\* ones included, in request order; each gets its chrome.windows.create call
\* at its own URL, and each window whose adapter was reached is sent the
\* INJECT_QUERY with its own selectors.
C25_RequestIdsAuthoritative ==
  (pc \notin {"idle", "storage"} /\ ~IsBlank(payload.query) /\ payload.hasIds) =>
    /\ IdsOf(selectedProviders) = Resolvable
    /\ \A x \in DOMAIN selectedProviders :
         selectedProviders[x] = StoredProvider(Resolvable[x])
    /\ Phase1Done =>
         /\ Len(createCalls) = Len(Resolvable)
         /\ \A x \in DOMAIN createCalls :
              createCalls[x].url = StoredProvider(Resolvable[x]).newChatUrl
    /\ \A k \in DOMAIN createdWindows :
         (k \in LaunchedWindows /\ tasks[k].pc \in {"done", "sendFailed"}) =>
           LogOf(k).injects = << PayloadFor(createdWindows[k].provider) >>

\* a request named the disabled claude before the enabled chatgpt: both got
\* a window, and claude's tab was sent the injection
C25_Witness ==
  /\ Quiescent
  /\ Succeeded
  /\ payload.providerIds = <<"claude", "chatgpt">>
  /\ ~StoredProvider("claude").enabled
  /\ StoredProvider("chatgpt").enabled
  /\ Len(createdWindows) = 2
  /\ createdWindows[1].provider.id = "claude"
  /\ ~createdWindows[1].provider.enabled
  /\ LogOf(1).injects = << PayloadFor(StoredProvider("claude")) >>
  /\ LogOf(2).injects = << PayloadFor(StoredProvider("chatgpt")) >>

\* the distance of two numbers
Apart(a, b) == IF a < b THEN b - a ELSE a - b

\* the window at hand is within 5 px of the rectangle planned for it, in
\* left, top, width and height
WithinFivePixels ==
  /\ Apart(win.bounds.left, positions[i].left) <= 5
  /\ Apart(win.bounds.top, positions[i].top) <= 5
  /\ Apart(win.bounds.width, positions[i].width) <= 5
  /\ Apart(win.bounds.height, positions[i].height) <= 5

\* verifyAndCorrectPosition is about to read the bounds of the window
AboutToRead == pc = "verify" /\ attempt < 3

\* verifyAndCorrectPosition has run out of attempts
OutOfAttempts == pc = "verify" /\ attempt >= 3

\* the number of reads and of corrections of the window at hand never passes
\* 3: attempt counts the corrections made, a correction is only under way
\* after fewer than 3, and every read but the first follows a correction
C27_Counts ==
  /\ attempt <= 3
  /\ pc = "update" => (attempt < 3 /\ ~WithinFivePixels)

\* a read within 5 px ends the verification with no correction
C27_CorrectEndsAtOnce ==
  (AboutToRead /\ WithinFivePixels) =>
    (pc' \in {"tabs", "returned"} /\ win' = win /\ attempt' = attempt)

\* a read is followed by a correction only, a correction by the next read,
\* and each correction is counted
C27_ReadThenCorrect ==
  /\ (AboutToRead /\ pc' = "update") => (attempt' = attempt /\ ~WithinFivePixels)
  /\ (pc = "update" /\ pc' = "verify") => attempt' = attempt + 1

\* out of attempts, the window is kept as it is and handed on; if it has a
\* tab it is recorded for phase 2, and the handler does not return
C27_MisplacedKept ==
  /\ OutOfAttempts =>
       (pc' = "tabs" /\ win' = win /\ response' = response /\ thrown' = thrown)
  /\ (pc = "tabs" /\ win.tabId # 0) =>
       /\ createdWindows' =
            Append(createdWindows,
                   [windowId |-> win.id, tabId |-> win.tabId,
                    provider |-> selectedProviders[i]])
       /\ response' = response
       /\ pc' \in {"create", "phase2"}

\* C27: for each created window the bounds are read at most 3 times and
\* corrected at most 3 times; a read within 5 px of the requested left, top,
\* width and height ends the verification at once, with no correction; a
\* window still misplaced after the attempts is kept: it goes on to phase 2
\* and the request does not fail over it.
C27_BoundedVerification ==
  /\ []C27_Counts
  /\ [][C27_CorrectEndsAtOnce /\ C27_ReadThenCorrect /\ C27_MisplacedKept]_vars

\* three corrections were ignored by the window manager: the window, still
\* more than 5 px off, is handed on with its tab
C27_Witness ==
  /\ pc = "tabs"
  /\ attempt = 3
  /\ win.tabId # 0
  /\ ~WithinFivePixels

\* verifyAndCorrectPosition has returned for the window at hand
VerifyReturned == pc = "tabs"
VerifyReturnedFalse == VerifyReturned /\ attempt >= maxRetries

\* C28 as stated: verifyAndCorrectPosition returns true when the window is
\* where it should be or one of the corrections has put it there, so that
\* when it returns false the bounds are still more than 5 px off in some
\* dimension.
C28_FalseMeansMisplaced ==
  /\ (VerifyReturned /\ WithinFivePixels) => ~VerifyReturnedFalse
  /\ VerifyReturnedFalse => ~WithinFivePixels

\* something of phase 2 was addressed to tab t
Addressed(t) ==
  tabLog[t].polled \/ tabLog[t].pings > 0 \/ tabLog[t].injects # <<>>

\* C29: a window that came back without an id, or without a tab that has an
\* id, is not recorded for phase 2: every recorded window has an id and a tab
\* id, there is one waitAndInjectQuery call per recorded window and none
\* else, and polls, PINGs and INJECT_QUERY go to tabs of recorded windows
\* only.  The destinations after it still get their windows, and a request
\* in which no browser call was rejected returns {success:true}.
C29_UnusableWindowSkipped ==
  /\ \A k \in DOMAIN createdWindows :
       /\ createdWindows[k].windowId # 0
       /\ createdWindows[k].tabId # 0
       /\ createdWindows[k].tabId \in DOMAIN tabLog
  /\ DOMAIN tasks = DOMAIN createdWindows
  /\ Len(createdWindows) <= Len(createCalls)
  /\ \A t \in DOMAIN tabLog :
       Addressed(t) => \E k \in DOMAIN createdWindows : createdWindows[k].tabId = t
  /\ (Phase1Done /\ thrown \cap Phase1Calls = {}) =>
       Len(createCalls) = Len(selectedProviders)
  /\ (Quiescent /\ selectedProviders # <<>> /\ thrown = {}) => Succeeded

\* the first window came back with an id but without a tab, the second with
\* both: only the second was recorded and served, and the request succeeded
C29_Witness ==
  /\ Quiescent
  /\ Succeeded
  /\ Len(createCalls) = 2
  /\ Len(createdWindows) = 1
  /\ createdWindows[1].windowId = 3
  /\ DOMAIN tabLog = {4}
  /\ Len(tabLog[4].injects) = 1

\* the handshake with the tab of the k-th recorded window is over
HandshakeOver(k) == tasks[k].pc \in {"inject", "done", "sendFailed", "abandoned"}

\* C30: waitForContentScript returns true at the first PING answered with
\* PONG, and no PING is sent to the tab after it; a PING whose send was
\* rejected or whose answer was not PONG leaves the tab not ready, and the
\* next PING follows; when the whole budget of PINGs has gone unanswered, and
\* not before, it returns false.
C30_HandshakeStopsAtPong ==
  /\ [](\A k \in DOMAIN createdWindows :
          /\ LogOf(k).pongs <= 1
          /\ LogOf(k).pings <= PingBudget
          /\ LogOf(k).pongs = 1 => tasks[k].pc \in {"inject", "done", "sendFailed"}
          /\ (LogOf(k).pings > 0 /\ LogOf(k).pongs = 0) =>
               tasks[k].pc = IF LogOf(k).pings = PingBudget
                               THEN "abandoned" ELSE "ping"
          /\ tasks[k].pc = "abandoned" =>
               (LogOf(k).pings = PingBudget /\ LogOf(k).pongs = 0))
  /\ [][\A t \in DOMAIN tabLog :
          tabLog[t].pongs >= 1 => tabLog'[t].pings = tabLog[t].pings]_vars

\* the first tab answered its first PING and got no second one; the second
\* tab left the whole budget unanswered
C30_Witness ==
  /\ Len(createdWindows) = 2
  /\ LogOf(1).pings = 1
  /\ LogOf(1).pongs = 1
  /\ tasks[1].pc = "done"
  /\ LogOf(2).pings = PingBudget
  /\ LogOf(2).pongs = 0
  /\ tasks[2].pc = "abandoned"

\* the place of a step in the order input lookup, text entry, submit lookup,
\* submission
Stage(step) ==
  IF step \in {"input found", "input missing", "input lookup threw"} THEN 1
  ELSE IF step \in {"text entered", "text entry threw"} THEN 2
  ELSE IF step \in {"submit found", "submit missing", "submit lookup threw"} THEN 3
  ELSE 4

\* the steps after which injectQuery goes on
Passed == {"input found", "text entered", "submit found"}

\* the steps at which something was thrown
Threw ==
  {"input lookup threw", "text entry threw", "submit lookup threw",
   "submission threw"}

\* C31: the steps of an injectQuery call are input lookup, text entry, submit
\* lookup and submission, in this order, each begun only when the one before
\* has passed.  With no input element the reply is a failure naming the input
\* selector, and no text was written and no submit control looked for; with
\* no submit control the reply is a failure naming the submit selector; a
\* step that throws yields a failure with a reason.
C31_StepsInOrder ==
  \A k \in DOMAIN inbox :
    Received(k, "INJECT_QUERY") =>
      LET steps == inbox[k].steps
          last == steps[Len(steps)]
          reply == inbox[k].replies[1]
      IN /\ \A x \in DOMAIN steps :
              /\ Stage(steps[x]) = x
              /\ x < Len(steps) => steps[x] \in Passed
         /\ inbox[k].pc = "returned" =>
              /\ steps # <<>>
              /\ last \notin Passed
              /\ last = "input missing" =>
                   /\ steps = << "input missing" >>
                   /\ reply = Failure(<<"Input element not found: ",
                                        inbox[k].message.payload.inputSelector>>)
              /\ last = "submit missing" =>
                   /\ steps = << "input found", "text entered", "submit missing" >>
                   /\ reply = Failure(<<"Submit button not found: ",
                                        inbox[k].message.payload.submitSelector>>)
              /\ last \in Threw =>
                   (~reply.success /\ Len(reply.error) = 2 /\ reply.error[2] # "")
              /\ reply.success => Len(steps) = 4

\* an injection ended at the input lookup with nothing written, another at
\* the submit lookup after the text was entered
C31_Witness ==
  /\ Len(inbox) = 2
  /\ Received(1, "INJECT_QUERY")
  /\ inbox[1].steps = << "input missing" >>
  /\ inbox[1].replies =
       << Failure(<<"Input element not found: ", "#prompt-textarea">>) >>
  /\ Received(2, "INJECT_QUERY")
  /\ inbox[2].steps = << "input found", "text entered", "submit missing" >>
  /\ inbox[2].replies =
       << Failure(<<"Submit button not found: ", "[data-testid=send-button]">>) >>

\* the attributes the last poll of clickSubmit read show an enabled control
SeenEnabled ==
  ~submitCall.seen.disabled /\ submitCall.seen.ariaDisabled # "true"

ClickReturned == submitCall.pc = "returned"

\* what a clickSubmit call that has returned did, by the three cases of the
\* submission rule: an enabled control is clicked once (true); a control
\* disabled at all 10 polls with an input at hand gets Enter keydown,
\* keypress, keyup at the input and no click (true); without an input it is
\* clicked all the same (false)
SubmissionRule ==
  /\ submitCall.polls >= 1
  /\ SeenEnabled =>
       /\ submitCall.events = << [type |-> "click", target |-> "submit"] >>
       /\ submitCall.result
  /\ (~SeenEnabled /\ submitCall.hasInput) =>
       /\ submitCall.polls = 10
       /\ submitCall.events = << [type |-> "keydown", target |-> "input"],
                                 [type |-> "keypress", target |-> "input"],
                                 [type |-> "keyup", target |-> "input"] >>
       /\ submitCall.result
  /\ (~SeenEnabled /\ ~submitCall.hasInput) =>
       /\ submitCall.polls = 10
       /\ submitCall.events = << [type |-> "click", target |-> "submit"] >>
       /\ ~submitCall.result

\* while clickSubmit waits, every poll so far found the control disabled,
\* nothing was dispatched, and the polls made are at most 10
WhilePolling ==
  submitCall.pc = "waiting" =>
    /\ ~SeenEnabled
    /\ submitCall.events = <<>>
    /\ submitCall.polls \in 1..10

\* C32 as stated: clickSubmit polls the control at most 10 times and ends by
\* the submission rule, whatever submit control it is given.
C32_ClickOrEnterOrLastResort ==
  /\ WhilePolling
  /\ ClickReturned => SubmissionRule

\* C32 as amended: for a control that is an HTMLElement, clickSubmit polls it
\* at most 10 times and ends by the submission rule; a control that is not
\* an HTMLElement is neither polled nor clicked, nothing is dispatched, and
\* the result is false.
C32_SubmissionRuleForHTMLElements ==
  /\ WhilePolling
  /\ (ClickReturned /\ submitCall.isHTMLElement) => SubmissionRule
  /\ (ClickReturned /\ ~submitCall.isHTMLElement) =>
       /\ submitCall.polls = 0
       /\ submitCall.events = <<>>
       /\ ~submitCall.result

\* a control with aria-disabled='true' at all 10 polls, and an input at hand:
\* the Enter sequence went to the input and the control was not clicked
C32_Witness ==
  /\ ClickReturned
  /\ submitCall.isHTMLElement
  /\ submitCall.hasInput
  /\ submitCall.polls = 10
  /\ submitCall.seen = [disabled |-> FALSE, ariaDisabled |-> "true"]
  /\ Len(submitCall.events) = 3
  /\ submitCall.events[1].type = "keydown"
  /\ submitCall.result

\* C40 as stated: a reply {success:true} to an INJECT_QUERY means that a
\* submission was dispatched on the page: the submit control was clicked or
\* the Enter key sequence was sent to the input element.
C40_SuccessMeansSubmitted ==
  \A k \in DOMAIN inbox :
    (Received(k, "INJECT_QUERY") /\ inbox[k].replies # <<>>
       /\ inbox[k].replies[1].success) =>
      inbox[k].steps[Len(inbox[k].steps)] \in {"clicked enabled", "enter dispatched"}

\* the bracket depth of a selector text before position x
Depth(text, x) ==
  Cardinality({ y \in 1..(x - 1) : text[y] = "[" })
    - Cardinality({ y \in 1..(x - 1) : text[y] = "]" })

\* the positions of the commas that separate the selectors of a list
ListCommas(text) == { x \in DOMAIN text : text[x] = "," /\ Depth(text, x) = 0 }

\* the x-th selector of a comma-separated list, blanks around it removed
Listed(text, x) ==
  LET cuts == ListCommas(text) \cup {0, Len(text) + 1}
      from == CHOOSE c \in cuts : Cardinality({ b \in cuts : b < c }) = x - 1
      to   == CHOOSE c \in cuts : Cardinality({ b \in cuts : b < c }) = x
  IN trim(SubSeq(text, from + 1, to - 1))

\* the element of the first selector of the list that matches, <<>> if none
FirstMatching(text, dom) ==
  LET n == Cardinality(ListCommas(text)) + 1
      hits == { x \in 1..n : Listed(text, x) # <<>> /\ Listed(text, x) \in dom }
  IN IF hits = {} THEN <<>>
     ELSE << Listed(text, CHOOSE x \in hits : \A y \in hits : x <= y) >>

LookupResolved == lookup.promise # <<>>

\* the call itself resolves with the first matching selector's element, and
\* otherwise starts the observer and the timer
ImmediateRule ==
  (lookup.pc = "idle" /\ lookup'.pc = "called")
    => LET match == FirstMatching(lookup'.selector, lookup.dom)
       IN IF match # <<>>
            THEN lookup'.promise = << match >> /\ lookup'.observer = "none"
                 /\ lookup'.timer = "none"
            ELSE lookup'.promise = <<>> /\ lookup'.observer = "observing"
                 /\ lookup'.timer = "armed"

\* a pending call resolves with the match found after a mutation or with
\* null at the timeout
LaterRule ==
  (lookup.pc = "called" /\ ~LookupResolved /\ lookup'.promise # <<>>)
    => \/ /\ lookup.records
          /\ FirstMatching(lookup.selector, lookup.dom) # <<>>
          /\ lookup'.promise = << FirstMatching(lookup.selector, lookup.dom) >>
       \/ /\ lookup.timer = "armed" /\ lookup'.timer = "fired"
          /\ lookup'.promise = << <<>> >>

\* C33: waitForElement resolves exactly once: at once with the element of the
\* first selector of the list that matches, otherwise with the first match
\* found after a DOM mutation, otherwise with null at the timeout; once
\* resolved the observer is disconnected and nothing changes the result.
C33_ResolvesExactlyOnce ==
  /\ [](LookupResolved => lookup.observer # "observing" /\ ~lookup.records)
  /\ [][ImmediateRule /\ LaterRule]_vars
  /\ [][LookupResolved => lookup'.promise = lookup.promise]_vars
  /\ (lookup.pc = "called") ~> LookupResolved

\* a call resolved by the observer, the timer fired afterwards and the
\* document changed again: the element found is still the result
C33_Witness ==
  /\ lookup.promise # <<>> /\ lookup.promise[1] # <<>>
  /\ lookup.timer = "fired" /\ lookup.resolveCalls = 2
  /\ lookup.promise[1][1] \notin lookup.dom

\* an element that is shown, has a size and is not disabled
ShownAndEnabled(element) ==
  /\ element.display # "none" /\ element.visibility # "hidden"
  /\ element.opacity # "0"
  /\ element.width > 0 /\ element.height > 0
  /\ ~element.disabled

\* C34: input detection accepts only an element that is visible (non-zero
\* size, not hidden by style) and not disabled, whichever strategy found it.
C34_OnlyVisibleEnabledAccepted ==
  [][(script'.inputElement # script.inputElement
        /\ script'.inputElement # "none")
      => /\ script.doc[script'.inputElement] # <<>>
         /\ ShownAndEnabled(script.doc[script'.inputElement][1])]_vars

PROVIDER_READYs ==
  Len(SelectSeq(script.effects, LAMBDA e : e.what = "PROVIDER_READY"))

\* the detection timer has fired and the script is not ready
Abandoned == script.timer = "fired" /\ ~script.isReady

\* C35: when the detection timeout elapses with no input detected, the
\* observer is disconnected and the script stays not ready: nothing makes it
\* ready or sends PROVIDER_READY afterwards.
C35_DetectionAbandoned ==
  /\ [](Abandoned => script.observer # "observing" /\ ~script.records)
  /\ [][Abandoned
          => /\ ~script'.isReady
             /\ script'.inputElement = "none"
             /\ PROVIDER_READYs' = PROVIDER_READYs]_vars

\* detection was abandoned and an input appeared on the page afterwards
C35_Witness ==
  /\ Abandoned /\ ~script.destroyed
  /\ script.observer = "disconnected"
  /\ detectInput(script.doc) # "none"
  /\ PROVIDER_READYs = 0

\* what a torn-down script must not do any more
Forbidden == {"PROVIDER_READY", "write", "custom submit", "click", "enter"}

\* C36: after destroy() the script holds no observer and no input element and
\* is not ready, and nothing started before destroy() makes it ready, sends
\* PROVIDER_READY, or writes or submits a query afterwards.
C36_DestroyTearsDown ==
  script.destroyed
    => /\ ~script.holdsObserver /\ script.observer # "observing"
       /\ script.inputElement = "none" /\ ~script.isReady
       /\ \A x \in DOMAIN script.effects :
            script.effects[x].destroyed => script.effects[x].what \notin Forbidden

\* what the fallback branch let a listener see, in order
FallbackLog == SelectSeq(editor.log, LAMBDA entry : entry.by = "fallback")

\* the text content the fallback branch started from
Before == IF FallbackLog = <<>> THEN "" ELSE FallbackLog[1].textContent

Seen(type, inputType, data, textContent) ==
  [what |-> type, by |-> "fallback", inputType |-> inputType, data |-> data,
   textContent |-> textContent]

Became(textContent) ==
  [what |-> "textContent", by |-> "fallback", textContent |-> textContent]

\* the six steps: each beforeinput is seen with the text content not yet
\* changed, each input with the change made
SixSteps(text) ==
  << Seen("beforeinput", "deleteContentBackward", <<>>, Before),
     Became(""),
     Seen("input", "deleteContentBackward", <<>>, ""),
     Seen("beforeinput", "insertText", << text >>, ""),
     Became(text),
     Seen("input", "insertText", << text >>, text) >>

InsertFailed == editor.at > 0

\* C37: when the native insertion fails on a contenteditable element, the
\* fallback produces beforeinput for deletion, text cleared, input for
\* deletion, beforeinput for insertion of the new text, text set, input for
\* insertion, in this order, and the text content ends equal to the text.
C37_FallbackOrder ==
  /\ [](FallbackLog = SubSeq(SixSteps(editor.text), 1, Len(FallbackLog)))
  /\ []((editor.pc = "done" /\ InsertFailed)
          => /\ FallbackLog = SixSteps(editor.text)
             /\ editor.textContent = editor.text)
  /\ (editor.pc = "fallback") ~> (editor.pc = "done")

\* both native commands failed on an element holding a draft, and the
\* fallback replaced the draft by the query
C37_Witness ==
  /\ editor.pc = "done" /\ InsertFailed
  /\ Before = "draft" /\ editor.text = "query"
  /\ editor.textContent = "query"
  /\ Len(editor.log) = 6

\* the write of caller c is being stored in this step
Stores(c) == ops[c].pc = "read" /\ ops'[c].write = "stored"

\* the stored record after the write of operation o: its own change is in
\* it, and everything else is as o found it when it read
WrittenAsRead(o, after) ==
  /\ o.op = "addQueryToHistory"
       => /\ after.providers = o.found.providers
          /\ after.settings = o.found.settings
          /\ o.found.settings.maxHistoryItems > 0
               => after.queryHistory # <<>>
                  /\ after.queryHistory[1] = trim(o.query)
  /\ o.op = "updateSettings"
       => /\ after.providers = o.found.providers
          /\ after.queryHistory = o.found.queryHistory
          /\ \A name \in o.updates.names :
               after.settings[name] = o.updates.values[name]
  /\ o.op = "toggleProvider"
       => /\ after.queryHistory = o.found.queryHistory
          /\ after.settings = o.found.settings
          /\ \E x \in DOMAIN after.providers :
               after.providers[x].id = o.id
                 /\ after.providers[x].enabled = o.enabled

\* C38: a storage operation writes back the whole record as it read it, with
\* its own change, whatever was stored in between: the later write of two
\* interleaved operations overwrites the earlier one.
C38_LaterWriteOverwrites ==
  [][\A c \in Callers : Stores(c) => WrittenAsRead(ops[c], storage')]_vars

\* two addQueryToHistory calls read the empty history, both writes were
\* stored, and the history holds one query only: the other update is lost
C38_Witness ==
  /\ \A c \in Callers :
       /\ ops[c].op = "addQueryToHistory" /\ ops[c].write = "stored"
       /\ ops[c].found = DEFAULT_STORAGE_DATA
  /\ trim(ops["first"].query) # trim(ops["second"].query)
  /\ Len(storage.queryHistory) = 1

\* C39: under any interleaving of toggles and window-removed events at most
\* one popup window opened by togglePopup is open, and popupWindowId is null
\* or the id of that popup (or of a popup whose removal is still to be
\* reported).
C39_AtMostOnePopup ==
  /\ Cardinality(popup.open) <= 1
  /\ \/ popup.popupWindowId = 0
     \/ popup.popupWindowId \in popup.open
     \/ popup.popupWindowId \in popup.removed

====
